---- MODULE Spec2Model ----
(***************************************************************************)
(* Verification model of the recommendation engine: the sizing advisor     *)
(* (cost-optimization/right-sizing/recommend_sizes.py), the scaling        *)
(* advisor (cost-optimization/auto-scaling/configure_scaling.py), the      *)
(* clustering advisor (performance/clustering/recommend_clustering_keys.py)*)
(* and the utilities they share (cost-optimization/snowflake_utils.py).    *)
(*                                                                         *)
(* Units.  Credit usage figures (AVG_CREDITS_PER_HOUR, P95_CREDITS) are    *)
(* Python floats; the model carries them exactly, as integers counting     *)
(* tenths of a credit (11 is 1.1 credits per hour).  Warehouse capacities  *)
(* are the whole credits of size_to_credits.  Money is carried as an exact *)
(* fraction [num, den] of tenths of a dollar, so that the division by the  *)
(* current capacity is not rounded.                                        *)
(***************************************************************************)
EXTENDS Integers, Sequences, FiniteSets, TLC

VARIABLES
    env,              \* os.environ: the value of SNOWFLAKE_CREDIT_COST
    source,           \* the per-table aggregates the clustering query groups
    df,               \* the DataFrame handed to the advisor
    i,                \* position of the iterrows() loop (next row to process)
    recommendations,  \* the list `recommendations` built by the loop
    frame,            \* locals of the advisor that outlive one loop iteration
    pc,               \* position of the run, see the actions
    error,            \* the exception that left the function, "" if none
    call,             \* a stand-alone invocation of the ladder utilities
    args,             \* the command line of main(), as parsed by argparse
    idle_df,          \* the DataFrame of find_idle_warehouses
    suspend_df,       \* the DataFrame of analyze_auto_suspend_settings
    confirmed,        \* the apply functions whose Confirm.ask returned True
    script,           \* execute_script: its caller, its queries, its position
    applied,          \* the statements the warehouse service has executed
    console           \* what the run has reported to the user, in order

\* the state of main() around the advisors: arguments, prompts, statements
applyvars == <<args, idle_df, suspend_df, confirmed, script, applied, console>>

vars == <<env, source, df, i, recommendations, frame, pc, error, call, applyvars>>

----------------------------------------------------------------------------
(* Bounds of the model *)

MaxHours == 2
MaxCreditTenths == 5200
MaxBatch == 2

\* largest batch handed to an apply path
MaxApply == 3

----------------------------------------------------------------------------
(* Values *)

\* Python None in an object column, and float('nan') in a float column: the
\* two shapes a SQL NULL takes in the DataFrame built by execute_query.
None == 0 - 1000000
NaN == 0 - 1000001

\* a local name that no assignment has bound yet
Unbound == 0 - 1000002

\* Python None in a column of strings
NoneObj == "<None>"

\* whole credits -> tenths of a credit
Tenths(c) == c * 10

notna(x) == x # None /\ x # NaN

\* float comparisons: every comparison with nan is False
Le(a, b) == a # NaN /\ b # NaN /\ a <= b
Lt(a, b) == a # NaN /\ b # NaN /\ a < b
Gt(a, b) == a # NaN /\ b # NaN /\ a > b

----------------------------------------------------------------------------
(* snowflake_utils.py *)

\* slip: a mistyped capacity in the lookup table
size_to_credits_typo ==
    ("X-SMALL" :> 1) @@ ("SMALL" :> 2) @@ ("MEDIUM" :> 4) @@ ("LARGE" :> 8) @@
    ("X-LARGE" :> 16) @@ ("XX-LARGE" :> 32) @@ ("XXX-LARGE" :> 64) @@
    ("4X-LARGE" :> 128) @@ ("5X-LARGE" :> 265) @@ ("6X-LARGE" :> 512)

size_to_credits ==
    ("X-SMALL" :> 1) @@ ("SMALL" :> 2) @@ ("MEDIUM" :> 4) @@ ("LARGE" :> 8) @@
    ("X-LARGE" :> 16) @@ ("XX-LARGE" :> 32) @@ ("XXX-LARGE" :> 64) @@
    ("4X-LARGE" :> 128) @@ ("5X-LARGE" :> 256) @@ ("6X-LARGE" :> 512)

\* str.upper() on the labels the model uses
upper(size) ==
    CASE size = "Small" -> "SMALL"
      [] size = "2X-Large" -> "2X-LARGE"
      [] OTHER -> size

parse_warehouse_size(size) ==
    IF upper(size) \in DOMAIN size_to_credits
    THEN size_to_credits[upper(size)]
    ELSE 0

\* slip: strict comparisons, a value on a tier boundary moves one tier up
recommend_warehouse_size_strict(credits_per_hour) ==
    IF Lt(credits_per_hour, Tenths(1)) THEN "X-SMALL"
    ELSE IF Lt(credits_per_hour, Tenths(2)) THEN "SMALL"
    ELSE IF Lt(credits_per_hour, Tenths(4)) THEN "MEDIUM"
    ELSE IF Lt(credits_per_hour, Tenths(8)) THEN "LARGE"
    ELSE IF Lt(credits_per_hour, Tenths(16)) THEN "X-LARGE"
    ELSE IF Lt(credits_per_hour, Tenths(32)) THEN "XX-LARGE"
    ELSE IF Lt(credits_per_hour, Tenths(64)) THEN "XXX-LARGE"
    ELSE IF Lt(credits_per_hour, Tenths(128)) THEN "4X-LARGE"
    ELSE IF Lt(credits_per_hour, Tenths(256)) THEN "5X-LARGE"
    ELSE "6X-LARGE"

\* slip: the labels of two adjacent rungs exchanged
recommend_warehouse_size_swapped(credits_per_hour) ==
    IF Le(credits_per_hour, Tenths(1)) THEN "X-SMALL"
    ELSE IF Le(credits_per_hour, Tenths(2)) THEN "MEDIUM"
    ELSE IF Le(credits_per_hour, Tenths(4)) THEN "SMALL"
    ELSE IF Le(credits_per_hour, Tenths(8)) THEN "LARGE"
    ELSE IF Le(credits_per_hour, Tenths(16)) THEN "X-LARGE"
    ELSE IF Le(credits_per_hour, Tenths(32)) THEN "XX-LARGE"
    ELSE IF Le(credits_per_hour, Tenths(64)) THEN "XXX-LARGE"
    ELSE IF Le(credits_per_hour, Tenths(128)) THEN "4X-LARGE"
    ELSE IF Le(credits_per_hour, Tenths(256)) THEN "5X-LARGE"
    ELSE "6X-LARGE"

\* credits_per_hour in tenths of a credit (or NaN)
recommend_warehouse_size(credits_per_hour) ==
    IF Le(credits_per_hour, Tenths(1)) THEN "X-SMALL"
    ELSE IF Le(credits_per_hour, Tenths(2)) THEN "SMALL"
    ELSE IF Le(credits_per_hour, Tenths(4)) THEN "MEDIUM"
    ELSE IF Le(credits_per_hour, Tenths(8)) THEN "LARGE"
    ELSE IF Le(credits_per_hour, Tenths(16)) THEN "X-LARGE"
    ELSE IF Le(credits_per_hour, Tenths(32)) THEN "XX-LARGE"
    ELSE IF Le(credits_per_hour, Tenths(64)) THEN "XXX-LARGE"
    ELSE IF Le(credits_per_hour, Tenths(128)) THEN "4X-LARGE"
    ELSE IF Le(credits_per_hour, Tenths(256)) THEN "5X-LARGE"
    ELSE "6X-LARGE"

\* os.getenv('SNOWFLAKE_CREDIT_COST', '3.0'); env = None when the variable is unset
get_warehouse_credit_cost == IF env = None THEN 3 ELSE env

\* credits_used in tenths of a credit (or NaN); result in tenths of a dollar
calculate_cost(credits_used) ==
    IF credits_used = NaN THEN NaN ELSE credits_used * get_warehouse_credit_cost

----------------------------------------------------------------------------
(* recommend_sizes.py: the body of the iterrows() loop *)

current_credits(row) == parse_warehouse_size(row.WAREHOUSE_SIZE)

\* slip: the tier is looked up for half the average
avg_based_size_half(row) ==
    recommend_warehouse_size(IF notna(row.AVG_CREDITS_PER_HOUR)
                             THEN row.AVG_CREDITS_PER_HOUR \div 2
                             ELSE row.AVG_CREDITS_PER_HOUR)

avg_based_size(row) == recommend_warehouse_size(row.AVG_CREDITS_PER_HOUR)
p95_based_size(row) == recommend_warehouse_size(row.P95_CREDITS)

\* slip: >= in place of >
high_concurrency_ge(row) ==
    IF notna(row.MAX_CONCURRENT_QUERIES)
    THEN row.MAX_CONCURRENT_QUERIES >= current_credits(row) * 8
    ELSE FALSE

high_concurrency(row) ==
    IF notna(row.MAX_CONCURRENT_QUERIES)
    THEN row.MAX_CONCURRENT_QUERIES > current_credits(row) * 8
    ELSE FALSE

\* avg_credits < current_credits * 0.5
oversized(row) ==
    Lt(IF row.AVG_CREDITS_PER_HOUR = NaN THEN NaN ELSE 2 * row.AVG_CREDITS_PER_HOUR,
       Tenths(current_credits(row)))

\* slip: >= in place of >
spiky_ge(row) ==
    ~Lt(IF row.P95_CREDITS = NaN THEN NaN ELSE 2 * row.P95_CREDITS,
        IF row.AVG_CREDITS_PER_HOUR = NaN THEN NaN ELSE 3 * row.AVG_CREDITS_PER_HOUR)
    /\ row.P95_CREDITS # NaN /\ row.AVG_CREDITS_PER_HOUR # NaN

\* p95_credits > avg_credits * 1.5
spiky(row) ==
    Gt(IF row.P95_CREDITS = NaN THEN NaN ELSE 2 * row.P95_CREDITS,
       IF row.AVG_CREDITS_PER_HOUR = NaN THEN NaN ELSE 3 * row.AVG_CREDITS_PER_HOUR)

\* which arm of the decision logic runs
branch(row) ==
    IF high_concurrency(row) THEN "high_concurrency"
    ELSE IF oversized(row) THEN "oversized"
    ELSE IF spiky(row) THEN "spiky"
    ELSE "consistent"

\* slip: the oversized arm sizes for the average instead of the P95
recommended_size_oversized_avg(row) ==
    CASE branch(row) = "high_concurrency" -> p95_based_size(row)
      [] branch(row) = "oversized" -> avg_based_size(row)
      [] branch(row) = "spiky" -> p95_based_size(row)
      [] OTHER -> avg_based_size(row)

recommended_size(row) ==
    CASE branch(row) = "high_concurrency" -> p95_based_size(row)
      [] branch(row) = "oversized" -> p95_based_size(row)
      [] branch(row) = "spiky" -> p95_based_size(row)
      [] OTHER -> avg_based_size(row)

confidence(row) == IF branch(row) = "high_concurrency" THEN "MEDIUM" ELSE "HIGH"

\* savings_pct = credit_diff / current_credits if current_credits > 0 else 0
savings_pct(row) ==
    LET cur == current_credits(row)
        rec == parse_warehouse_size(recommended_size(row))
    IN IF cur > 0 THEN [num |-> cur - rec, den |-> cur] ELSE [num |-> 0, den |-> 1]

total_credits_used(row) ==
    IF row.AVG_CREDITS_PER_HOUR = NaN THEN NaN
    ELSE row.AVG_CREDITS_PER_HOUR * row.ACTIVE_HOURS

\* slip: the projection of the unknown-size arm used for every warehouse
estimated_savings_capacity(row) ==
    LET rec == parse_warehouse_size(recommended_size(row))
        total == total_credits_used(row)
        current_cost == calculate_cost(total)
    IN IF total = NaN THEN [num |-> NaN, den |-> 1]
       ELSE [num |-> current_cost - calculate_cost(Tenths(rec) * row.ACTIVE_HOURS),
             den |-> 1]

\* slip: the subtraction the wrong way round
estimated_savings_flipped(row) ==
    LET cur == current_credits(row)
        rec == parse_warehouse_size(recommended_size(row))
        total == total_credits_used(row)
        current_cost == calculate_cost(total)
    IN IF total = NaN THEN [num |-> NaN, den |-> 1]
       ELSE IF cur > 0
       THEN [num |-> calculate_cost(total * rec) - current_cost * cur, den |-> cur]
       ELSE [num |-> calculate_cost(Tenths(rec) * row.ACTIVE_HOURS) - current_cost,
             den |-> 1]

\* savings = current_cost - projected_cost, as an exact fraction
estimated_savings(row) ==
    LET cur == current_credits(row)
        rec == parse_warehouse_size(recommended_size(row))
        total == total_credits_used(row)
        current_cost == calculate_cost(total)
    IN IF total = NaN THEN [num |-> NaN, den |-> 1]
       ELSE IF cur > 0
       THEN \* projected_cost = calculate_cost(total * (rec / cur))
            [num |-> current_cost * cur - calculate_cost(total * rec), den |-> cur]
       ELSE \* projected_cost = calculate_cost(rec * ACTIVE_HOURS)
            [num |-> current_cost - calculate_cost(Tenths(rec) * row.ACTIVE_HOURS),
             den |-> 1]

\* variability > 0.5, where variability is STDDEV_CREDITS / avg_credits when
\* avg_credits > 0 and the deviation is not null, and 0 otherwise
high_variability(row) ==
    /\ Gt(row.AVG_CREDITS_PER_HOUR, 0)
    /\ notna(row.STDDEV_CREDITS)
    /\ 2 * row.STDDEV_CREDITS > row.AVG_CREDITS_PER_HOUR

\* avg_queries and avg_queries < 10: None and 0 are falsy
low_query_volume(row) ==
    /\ row.AVG_QUERIES_PER_HOUR # None
    /\ row.AVG_QUERIES_PER_HOUR # 0
    /\ Lt(row.AVG_QUERIES_PER_HOUR, Tenths(10))

considerations(row) ==
    (IF high_variability(row)
     THEN <<"High workload variability", "Consider auto-scaling policies">>
     ELSE <<>>)
    \o (IF low_query_volume(row)
        THEN <<"Low query volume", "Consider consolidating with other warehouses">>
        ELSE <<>>)

\* the dict appended to `recommendations`
recommendation(row) ==
    [warehouse |-> row.WAREHOUSE_NAME,
     current_size |-> row.WAREHOUSE_SIZE,
     current_credits_per_hour |-> current_credits(row),
     recommended_size |-> recommended_size(row),
     recommended_credits_per_hour |-> parse_warehouse_size(recommended_size(row)),
     avg_credits_used |-> row.AVG_CREDITS_PER_HOUR,
     p95_credits_used |-> row.P95_CREDITS,
     active_hours |-> row.ACTIVE_HOURS,
     savings_pct |-> savings_pct(row),
     estimated_savings |-> estimated_savings(row),
     confidence |-> confidence(row),
     rationale |-> branch(row),
     max_credits_used |-> row.MAX_CREDITS_PER_HOUR,
     considerations |-> considerations(row),
     max_concurrent |-> IF notna(row.MAX_CONCURRENT_QUERIES)
                        THEN row.MAX_CONCURRENT_QUERIES ELSE 0]

\* float(None) at lines 133-135
raises_TypeError(row) ==
    \/ row.AVG_CREDITS_PER_HOUR = None
    \/ row.P95_CREDITS = None
    \/ row.MAX_CREDITS_PER_HOUR = None

\* avg_credits / current_credits in the rationale of the oversized arm
raises_ZeroDivisionError(row) ==
    /\ ~raises_TypeError(row)
    /\ branch(row) = "oversized"
    /\ current_credits(row) = 0

----------------------------------------------------------------------------
(* configure_scaling.py: the body of the iterrows() loop.  Concurrency and *)
(* queue depths are carried in tenths of a query (85 is 8.5 queries).      *)

\* Python `x or d`: None and 0 are falsy, nan is truthy
Or(x, d) == IF x = None \/ x = 0 THEN d ELSE x

Mul(x, k) == IF x = NaN THEN NaN ELSE x * k

Max2(a, b) == IF a >= b THEN a ELSE b
Min2(a, b) == IF a <= b THEN a ELSE b

queries_per_cluster_threshold == 8

current_min(row) == Or(row.MIN_CLUSTER_COUNT, 1)
current_max(row) == Or(row.MAX_CLUSTER_COUNT, 1)

hours_with_queuing(row) == Or(row.HOURS_WITH_QUEUING, 0)

\* (hours_with_queuing / active_hours * 100) if active_hours > 0 else 0,
\* as an exact fraction
queue_percentage(row) ==
    IF row.ACTIVE_HOURS_TOTAL > 0
    THEN [num |-> hours_with_queuing(row) * 100, den |-> row.ACTIVE_HOURS_TOTAL]
    ELSE [num |-> 0, den |-> 1]

\* q > n for a fraction q with a positive denominator
PctGt(q, n) == q.num > n * q.den

\* slip: >= in place of > on the peak
needs_multi_cluster_ge(row) ==
    \/ row.ABSOLUTE_PEAK_CONCURRENT >= Tenths(queries_per_cluster_threshold)
    \/ PctGt(queue_percentage(row), 5)
    \/ row.MAX_QUEUED > Tenths(5)

needs_multi_cluster(row) ==
    \/ row.ABSOLUTE_PEAK_CONCURRENT > Tenths(queries_per_cluster_threshold)
    \/ PctGt(queue_percentage(row), 5)
    \/ row.MAX_QUEUED > Tenths(5)

\* int(x / queries_per_cluster_threshold) for x >= 0 in tenths
PerCluster(x) == x \div Tenths(queries_per_cluster_threshold)

recommended_min(row) ==
    IF needs_multi_cluster(row)
    THEN Max2(1, PerCluster(row.P95_CONCURRENT))
    ELSE 1

\* slip: the headroom cluster forgotten
recommended_max_no_headroom(row) ==
    IF needs_multi_cluster(row)
    THEN Min2(Max2(recommended_min(row), PerCluster(row.ABSOLUTE_PEAK_CONCURRENT)), 10)
    ELSE 1

recommended_max(row) ==
    IF needs_multi_cluster(row)
    THEN Min2(Max2(recommended_min(row),
                   PerCluster(row.ABSOLUTE_PEAK_CONCURRENT) + 1), 10)
    ELSE 1

\* business_hours_peak and off_hours_peak as line 194 reads them: bound in
\* the else arm of this iteration, otherwise left over from an earlier row
business_hours_peak(row, fr) ==
    IF needs_multi_cluster(row) THEN Or(row.BUSINESS_HOURS_PEAK, 0)
    ELSE fr.business_hours_peak

off_hours_peak(row, fr) ==
    IF needs_multi_cluster(row) THEN Or(row.OFF_HOURS_PEAK, 0)
    ELSE fr.off_hours_peak

recommended_policy(row) ==
    IF ~needs_multi_cluster(row) THEN NoneObj
    ELSE IF Gt(Or(row.BUSINESS_HOURS_PEAK, 0), Mul(Or(row.OFF_HOURS_PEAK, 0), 2))
    THEN "ECONOMY"
    ELSE "STANDARD"

\* slip: >= in place of >
scaling_confidence_ge(row) ==
    IF ~needs_multi_cluster(row) THEN "HIGH"
    ELSE IF ~PctGt(queue_percentage(row), 10)
            /\ queue_percentage(row).num # 10 * queue_percentage(row).den
    THEN "MEDIUM" ELSE "HIGH"

scaling_confidence(row) ==
    IF ~needs_multi_cluster(row) THEN "HIGH"
    ELSE IF PctGt(queue_percentage(row), 10) THEN "HIGH" ELSE "MEDIUM"

scaling_rationale(row) ==
    IF ~needs_multi_cluster(row)
    THEN IF Gt(current_max(row), 1) THEN "over_provisioned" ELSE "low_concurrency"
    ELSE IF recommended_policy(row) = "ECONOMY" THEN "time_based_variation"
    ELSE "consistent_high_concurrency"

\* cost_impact: the label and, for a decrease, the amount of
\* calculate_cost(100) in tenths of a dollar
cost_impact(row) ==
    IF Gt(recommended_max(row), current_max(row))
    THEN [label |-> "INCREASE", amount |-> None]
    ELSE IF Lt(recommended_max(row), current_max(row))
    THEN [label |-> "DECREASE", amount |-> calculate_cost(Tenths(100))]
    ELSE [label |-> "NEUTRAL", amount |-> None]

Cond(c, tag) == IF c THEN <<tag>> ELSE <<>>

scaling_considerations(row, fr) ==
    Cond(PctGt(queue_percentage(row), 0), "queuing")
    \o Cond(Or(row.AVG_QUEUED_WHEN_QUEUING, 0) # 0
            /\ Gt(row.AVG_QUEUED_WHEN_QUEUING, Tenths(2)), "avg_queued")
    \o Cond(Gt(Mul(business_hours_peak(row, fr), 2),
               Mul(off_hours_peak(row, fr), 3)), "business_hours_variation")
    \o Cond(Gt(Mul(Or(row.WEEKDAY_PEAK, 0), 2),
               Mul(Or(row.WEEKEND_PEAK, 0), 3)), "weekday_load")

\* the dict appended to `recommendations`
scaling_recommendation(row, fr) ==
    [warehouse |-> row.WAREHOUSE_NAME,
     warehouse_type |-> row.WAREHOUSE_TYPE,
     current_min_clusters |-> current_min(row),
     current_max_clusters |-> current_max(row),
     current_policy |-> IF row.SCALING_POLICY = NoneObj THEN "N/A"
                        ELSE row.SCALING_POLICY,
     recommended_min_clusters |-> recommended_min(row),
     recommended_max_clusters |-> recommended_max(row),
     recommended_policy |-> IF recommended_policy(row) = NoneObj THEN "N/A"
                            ELSE recommended_policy(row),
     peak_concurrent_queries |-> row.ABSOLUTE_PEAK_CONCURRENT,
     p95_concurrent |-> row.P95_CONCURRENT,
     hours_with_queuing |-> hours_with_queuing(row),
     queue_percentage |-> queue_percentage(row),
     needs_multi_cluster |-> needs_multi_cluster(row),
     cost_impact |-> cost_impact(row),
     rationale |-> scaling_rationale(row),
     confidence |-> scaling_confidence(row),
     considerations |-> scaling_considerations(row, fr)]

\* p95_concurrent / queries_per_cluster_threshold with p95_concurrent None
scaling_raises_TypeError(row) ==
    needs_multi_cluster(row) /\ row.P95_CONCURRENT = None

\* line 194 reads business_hours_peak, which only the else arm assigns
scaling_raises_UnboundLocalError(row, fr) ==
    ~needs_multi_cluster(row) /\ fr.business_hours_peak = Unbound

\* the locals the iteration leaves behind
scaling_frame(row, fr) ==
    [business_hours_peak |-> business_hours_peak(row, fr),
     off_hours_peak |-> off_hours_peak(row, fr)]

----------------------------------------------------------------------------
(* recommend_clustering_keys.py.  Byte counts are carried in MiB, the      *)
(* partition scan ratio in hundredths.                                     *)

MiBPerGiB == 1024

\* slip: the floor dropped to one query
having_any(row) == row.QUERY_COUNT >= 1

\* HAVING COUNT(DISTINCT qf.query_id) >= 5
having(row) == row.QUERY_COUNT >= 5

\* `not current_key`: None and the empty string are falsy
no_current_key(row) == row.CURRENT_CLUSTERING_KEY \in {NoneObj, ""}

\* row['TABLE_BYTES'] / (1024**3) if row['TABLE_BYTES'] else 0, as a fraction
table_size_gb(row) ==
    [num |-> Or(row.TABLE_BYTES, 0), den |-> MiBPerGiB]

\* slip: >= in place of > on the scan ratio
needs_clustering_ge(row) ==
    \/ row.AVG_PARTITION_SCAN_RATIO >= 50
    \/ (no_current_key(row) /\ row.QUERY_COUNT > 20)
    \/ PctGt(table_size_gb(row), 100)

needs_clustering(row) ==
    \/ row.AVG_PARTITION_SCAN_RATIO > 50
    \/ (no_current_key(row) /\ row.QUERY_COUNT > 20)
    \/ PctGt(table_size_gb(row), 100)

\* slip: >= in place of > on the query count
clustering_priority_ge(row) ==
    IF no_current_key(row)
    THEN IF row.QUERY_COUNT >= 50 THEN "HIGH" ELSE "MEDIUM"
    ELSE IF row.AVG_PARTITION_SCAN_RATIO > 70 THEN "HIGH" ELSE "LOW"

clustering_priority(row) ==
    IF no_current_key(row)
    THEN IF row.QUERY_COUNT > 50 THEN "HIGH" ELSE "MEDIUM"
    ELSE IF row.AVG_PARTITION_SCAN_RATIO > 70 THEN "HIGH" ELSE "LOW"

clustering_recommendation(row) ==
    IF no_current_key(row) THEN "Add clustering key"
    ELSE IF row.AVG_PARTITION_SCAN_RATIO > 70 THEN "Re-evaluate clustering key"
    ELSE "Monitor clustering health"

\* the column names whose lower-cased text contains 'date', and 'id'
ContainsDate == {"ORDER_DATE", "UPDATED_AT"}
ContainsId == {"ID", "WIDTH"}

suggested_keys(row) ==
    IF no_current_key(row)
    THEN Cond(row.TABLE_COLUMNS \cap ContainsDate # {}, "date_columns")
         \o Cond(row.TABLE_COLUMNS \cap ContainsId # {}, "id_columns")
    ELSE IF row.AVG_PARTITION_SCAN_RATIO > 70 THEN <<"not_effective">>
    ELSE <<"adequate">>

\* calculate_cost(avg_bytes / 1024**3 * 0.01) * query_count * 0.3 * 30, in
\* dollars as an exact fraction
potential_monthly_savings(row) ==
    [num |-> calculate_cost(row.AVG_BYTES_SCANNED) * row.QUERY_COUNT * 9,
     den |-> MiBPerGiB * 100]

clustering_considerations(row) ==
    Cond(PctGt(table_size_gb(row), 500), "large_table")
    \o Cond(row.QUERY_COUNT > 100, "high_query_volume")
    \o Cond(row.AVG_PARTITION_SCAN_RATIO > 80, "poor_pruning")

\* the dict appended to `recommendations`
clustering_rec(row) ==
    [database |-> row.DATABASE_NAME,
     schema |-> row.SCHEMA_NAME,
     table |-> row.TABLE_NAME,
     table_size_gb |-> table_size_gb(row),
     current_clustering_key |-> IF no_current_key(row) THEN "None"
                                ELSE row.CURRENT_CLUSTERING_KEY,
     query_count |-> row.QUERY_COUNT,
     avg_execution_seconds |-> row.AVG_EXECUTION_SECONDS,
     partition_scan_ratio |-> row.AVG_PARTITION_SCAN_RATIO,
     priority |-> clustering_priority(row),
     recommendation |-> clustering_recommendation(row),
     suggested_keys |-> suggested_keys(row),
     potential_monthly_savings |-> potential_monthly_savings(row),
     considerations |-> clustering_considerations(row)]

\* row['AVG_BYTES_SCANNED'] / (1024**3) with AVG_BYTES_SCANNED None
clustering_raises_TypeError(row) ==
    needs_clustering(row) /\ row.AVG_BYTES_SCANNED = None

----------------------------------------------------------------------------
(* Inputs *)

SizeLabels == DOMAIN size_to_credits \cup {"UNKNOWN", "Small", "2X-Large"}

CreditValues == {0 - 5, 0, 5, 10, 11, 15, 16, 20, 30, 40, 41, 80, 2560, 5120, 6000}

ConcurrencyValues == {None, 0, 1, 8, 9, 5000}

EnvValues == {None, 2}

Rows(name) ==
    [WAREHOUSE_NAME : {name},
     WAREHOUSE_SIZE : SizeLabels,
     AVG_CREDITS_PER_HOUR : CreditValues \cup {None, NaN},
     P95_CREDITS : CreditValues \cup {None, NaN},
     MAX_CONCURRENT_QUERIES : ConcurrencyValues,
     ACTIVE_HOURS : 1..MaxHours,
     MAX_CREDITS_PER_HOUR : {6000},
     STDDEV_CREDITS : {None},
     AVG_QUERIES_PER_HOUR : {None}]

\* profiles that vary the statistics the considerations read, in every arm
\* of the decision logic; query rates are in tenths of a query per hour
ProfileRows(name) ==
    {r \in [WAREHOUSE_NAME : {name},
            WAREHOUSE_SIZE : {"LARGE", "UNKNOWN"},
            AVG_CREDITS_PER_HOUR : {0 - 5, 0, 10, 40},
            P95_CREDITS : {0, 11, 41, 80},
            MAX_CONCURRENT_QUERIES : {None, 5000},
            ACTIVE_HOURS : {1},
            MAX_CREDITS_PER_HOUR : {None, 10, 80},
            STDDEV_CREDITS : {None, NaN, 0, 5, 6, 20, 21},
            AVG_QUERIES_PER_HOUR : {None, NaN, 0, 50, 99, 100}] :
        <<r.AVG_CREDITS_PER_HOUR, r.P95_CREDITS>>
            \in {<<0 - 5, 0>>, <<0, 0>>, <<10, 11>>, <<40, 41>>, <<40, 80>>}}

\* the sizing advisor keeps no local across iterations that it reads before
\* writing; the scaling advisor does (see ScalingIterRow)
NoFrame == [business_hours_peak |-> Unbound, off_hours_peak |-> Unbound]

\* python tool.py with no option: nothing is applied, nothing is asked
NoArgs == [prog |-> "", apply |-> FALSE, warehouse |-> NoneObj,
           suspend |-> FALSE, optimize_suspend |-> FALSE]

NoScript == [caller |-> "", queries |-> <<>>, i |-> 1]

\* the advisor is observed on its own, main() takes no apply path
NoApply ==
    /\ args = NoArgs
    /\ idle_df = <<>>
    /\ suspend_df = <<>>
    /\ confirmed = {}
    /\ script = NoScript
    /\ applied = <<>>
    /\ console = <<>>

\* no stand-alone call of the ladder utilities in progress
NoCall == [chain |-> "none", stage |-> 0, arg_credits |-> 0, arg_size |-> "",
           size |-> "", credits |-> 0]

----------------------------------------------------------------------------
(* generate_sizing_recommendations as a state machine *)

Init ==
    /\ env \in EnvValues
    /\ df \in {<<r>> : r \in Rows("WH1")}
    /\ i = 1
    /\ recommendations = <<>>
    /\ source = <<>>
    /\ frame = NoFrame
    /\ pc = "iterrows"
    /\ error = ""
    /\ call = NoCall
    /\ NoApply

\* one pass of the loop body that reaches recommendations.append
IterRow ==
    /\ pc = "iterrows"
    /\ i <= Len(df)
    /\ ~raises_TypeError(df[i])
    /\ ~raises_ZeroDivisionError(df[i])
    /\ recommendations' = Append(recommendations, recommendation(df[i]))
    /\ i' = i + 1
    /\ UNCHANGED <<env, source, df, frame, pc, error, call>>
    /\ UNCHANGED applyvars

\* the loop body raises: the exception leaves generate_sizing_recommendations
\* and the list built so far is lost with the frame
IterRaise ==
    /\ pc = "iterrows"
    /\ i <= Len(df)
    /\ \/ raises_TypeError(df[i]) /\ error' = "TypeError"
       \/ raises_ZeroDivisionError(df[i]) /\ error' = "ZeroDivisionError"
    /\ pc' = "raised"
    /\ recommendations' = <<>>
    /\ UNCHANGED <<env, source, df, i, frame, call>>
    /\ UNCHANGED applyvars

\* return pd.DataFrame(recommendations)
Return ==
    /\ pc = "iterrows"
    /\ i > Len(df)
    /\ pc' = "returned"
    /\ UNCHANGED <<env, source, df, i, recommendations, frame, error, call>>
    /\ UNCHANGED applyvars

\* main(): `except Exception` prints the error and calls sys.exit(1); nothing
\* is displayed, saved or applied
MainExcept ==
    /\ pc = "raised"
    /\ pc' = "exit1"
    /\ UNCHANGED <<env, source, df, i, recommendations, frame, error, call>>
    /\ UNCHANGED applyvars

Next == IterRow \/ IterRaise \/ Return \/ MainExcept

Spec == Init /\ [][Next]_vars

----------------------------------------------------------------------------
(* A batch of two warehouses whose rows differ only in AVG_CREDITS_PER_HOUR *)

InitPair ==
    /\ env = None
    /\ \E r \in Rows("WH1"), a2 \in CreditValues :
          /\ r.ACTIVE_HOURS = 1
          /\ notna(r.AVG_CREDITS_PER_HOUR)
          /\ r.AVG_CREDITS_PER_HOUR < a2
          /\ df = <<r, [r EXCEPT !.WAREHOUSE_NAME = "WH2",
                                 !.AVG_CREDITS_PER_HOUR = a2]>>
    /\ i = 1
    /\ recommendations = <<>>
    /\ source = <<>>
    /\ frame = NoFrame
    /\ pc = "iterrows"
    /\ error = ""
    /\ call = NoCall
    /\ NoApply

SpecPair == InitPair /\ [][Next]_vars

----------------------------------------------------------------------------
(* One warehouse drawn from the profiles that exercise the considerations *)

InitProfile ==
    /\ env \in EnvValues
    /\ df \in {<<r>> : r \in ProfileRows("WH1")}
    /\ i = 1
    /\ recommendations = <<>>
    /\ source = <<>>
    /\ frame = NoFrame
    /\ pc = "iterrows"
    /\ error = ""
    /\ call = NoCall
    /\ NoApply

SpecProfile == InitProfile /\ [][Next]_vars

----------------------------------------------------------------------------
(* A batch of up to MaxBatch warehouses, over a small set of profiles that *)
(* holds valid rows and rows on which the loop body raises                 *)

BatchRows(name) ==
    {r \in Rows(name) :
        /\ r.WAREHOUSE_SIZE \in {"LARGE", "UNKNOWN"}
        /\ r.AVG_CREDITS_PER_HOUR \in {None, NaN, 0 - 5, 10}
        /\ r.P95_CREDITS \in {None, 11}
        /\ r.MAX_CONCURRENT_QUERIES = None
        /\ r.ACTIVE_HOURS = 1}

WarehouseName(k) == <<"WH1", "WH2", "WH3", "WH4">>[k]

InitBatch ==
    /\ env = None
    /\ \E n \in 1..MaxBatch :
          \E rows \in [1..n -> BatchRows("WH")] :
             df = [k \in 1..n |-> [rows[k] EXCEPT !.WAREHOUSE_NAME = WarehouseName(k)]]
    /\ i = 1
    /\ recommendations = <<>>
    /\ source = <<>>
    /\ frame = NoFrame
    /\ pc = "iterrows"
    /\ error = ""
    /\ call = NoCall
    /\ NoApply

SpecBatch == InitBatch /\ [][Next]_vars

----------------------------------------------------------------------------
(* generate_scaling_recommendations as a state machine *)

\* <<ABSOLUTE_PEAK_CONCURRENT, P95_CONCURRENT>>, p95 <= peak
ConcurrencyProfiles ==
    {<<40, 40>>, <<80, 80>>, <<85, 80>>, <<400, 160>>, <<900, 900>>,
     <<400, None>>, <<40, None>>}

\* <<HOURS_WITH_QUEUING, ACTIVE_HOURS_TOTAL, MAX_QUEUED>>
QueueProfiles ==
    {<<0, 0, 0>>, <<0, 100, 0>>, <<5, 100, 0>>, <<6, 100, 0>>, <<10, 100, 0>>,
     <<12, 100, 0>>, <<0, 100, 50>>, <<0, 100, 51>>, <<None, 100, 0>>}

\* <<BUSINESS_HOURS_PEAK, OFF_HOURS_PEAK>>
PeakWindows ==
    {<<None, None>>, <<120, 60>>, <<121, 60>>, <<120, NaN>>, <<90, 60>>, <<91, 60>>}

\* <<MIN_CLUSTER_COUNT, MAX_CLUSTER_COUNT, SCALING_POLICY>>
ClusterConfigs ==
    {<<None, None, NoneObj>>, <<1, 1, NoneObj>>, <<1, 3, "STANDARD">>,
     <<2, 10, "ECONOMY">>, <<1, NaN, NoneObj>>, <<2, 6, "STANDARD">>}

\* <<AVG_QUEUED_WHEN_QUEUING, WEEKDAY_PEAK, WEEKEND_PEAK>>
QueueDetails == {<<None, None, None>>, <<30, 100, 50>>}

ScalingRow(name, c, q, w, g, d) ==
    [WAREHOUSE_NAME |-> name,
     WAREHOUSE_TYPE |-> "STANDARD",
     MIN_CLUSTER_COUNT |-> g[1],
     MAX_CLUSTER_COUNT |-> g[2],
     SCALING_POLICY |-> g[3],
     ABSOLUTE_PEAK_CONCURRENT |-> c[1],
     P95_CONCURRENT |-> c[2],
     HOURS_WITH_QUEUING |-> q[1],
     ACTIVE_HOURS_TOTAL |-> q[2],
     MAX_QUEUED |-> q[3],
     BUSINESS_HOURS_PEAK |-> w[1],
     OFF_HOURS_PEAK |-> w[2],
     AVG_QUEUED_WHEN_QUEUING |-> d[1],
     WEEKDAY_PEAK |-> d[2],
     WEEKEND_PEAK |-> d[3]]

ScalingRows(name) ==
    {ScalingRow(name, c, q, w, g, d) :
        c \in ConcurrencyProfiles, q \in QueueProfiles, w \in PeakWindows,
        g \in ClusterConfigs, d \in QueueDetails}

\* the rows that may come first in a two-row batch: two busy warehouses and
\* a quiet one
LeadRows(name) ==
    {ScalingRow(name, <<400, 160>>, <<12, 100, 0>>, <<121, 60>>,
                <<2, 10, "ECONOMY">>, <<None, None, None>>),
     ScalingRow(name, <<400, 160>>, <<12, 100, 0>>, <<None, None>>,
                <<1, 1, NoneObj>>, <<None, None, None>>),
     ScalingRow(name, <<40, 40>>, <<0, 100, 0>>, <<None, None>>,
                <<1, 1, NoneObj>>, <<None, None, None>>)}

InitScaling ==
    /\ env \in EnvValues
    /\ \/ df \in {<<r>> : r \in ScalingRows("WH1")}
       \/ df \in {<<l, r>> : l \in LeadRows("WH1"), r \in ScalingRows("WH2")}
    /\ i = 1
    /\ recommendations = <<>>
    /\ source = <<>>
    /\ frame = NoFrame
    /\ pc = "scaling_iterrows"
    /\ error = ""
    /\ call = NoCall
    /\ NoApply

\* one pass of the loop body that reaches recommendations.append
ScalingIterRow ==
    /\ pc = "scaling_iterrows"
    /\ i <= Len(df)
    /\ ~scaling_raises_TypeError(df[i])
    /\ ~scaling_raises_UnboundLocalError(df[i], frame)
    /\ recommendations' = Append(recommendations, scaling_recommendation(df[i], frame))
    /\ frame' = scaling_frame(df[i], frame)
    /\ i' = i + 1
    /\ UNCHANGED <<env, source, df, pc, error, call>>
    /\ UNCHANGED applyvars

\* the loop body raises: the exception leaves generate_scaling_recommendations
ScalingIterRaise ==
    /\ pc = "scaling_iterrows"
    /\ i <= Len(df)
    /\ \/ scaling_raises_TypeError(df[i]) /\ error' = "TypeError"
       \/ scaling_raises_UnboundLocalError(df[i], frame)
            /\ error' = "UnboundLocalError"
    /\ pc' = "scaling_raised"
    /\ recommendations' = <<>>
    /\ frame' = NoFrame
    /\ UNCHANGED <<env, source, df, i, call>>
    /\ UNCHANGED applyvars

\* return pd.DataFrame(recommendations)
ScalingReturn ==
    /\ pc = "scaling_iterrows"
    /\ i > Len(df)
    /\ pc' = "returned"
    /\ UNCHANGED <<env, source, df, i, recommendations, frame, error, call>>
    /\ UNCHANGED applyvars

\* main(): except Exception -> print, log, sys.exit(1)
ScalingMainExcept ==
    /\ pc = "scaling_raised"
    /\ pc' = "exit1"
    /\ UNCHANGED <<env, source, df, i, recommendations, frame, error, call>>
    /\ UNCHANGED applyvars

NextScaling ==
    ScalingIterRow \/ ScalingIterRaise \/ ScalingReturn \/ ScalingMainExcept

SpecScaling == InitScaling /\ [][NextScaling]_vars

----------------------------------------------------------------------------
(* The clustering advisor as a state machine: `source` holds the groups of *)
(* the access-pattern query before its HAVING clause, in the query's       *)
(* order and fewer than its LIMIT.                                         *)

ScanRatios == {20, 50, 51, 70, 71, 85}
QueryCounts == {3, 4, 5, 20, 21, 50, 51, 60, 101}
TableBytes == {None, 5 * MiBPerGiB, 100 * MiBPerGiB, 100 * MiBPerGiB + 1,
               600 * MiBPerGiB}
ClusteringKeys == {NoneObj, "", "LINEAR(ORDER_DATE)"}
ColumnSets == {{"ID", "ORDER_DATE"}, {"NAME"}}
BytesScanned == {None, MiBPerGiB}

AccessRows(name) ==
    [DATABASE_NAME : {"DB"},
     SCHEMA_NAME : {"PUBLIC"},
     TABLE_NAME : {name},
     CURRENT_CLUSTERING_KEY : ClusteringKeys,
     AVG_PARTITION_SCAN_RATIO : ScanRatios,
     QUERY_COUNT : QueryCounts,
     AVG_EXECUTION_SECONDS : {1},
     TABLE_BYTES : TableBytes,
     AVG_BYTES_SCANNED : BytesScanned,
     TABLE_COLUMNS : ColumnSets]

\* the tables that may come first: Scenario C, the same table seen by only
\* 3 queries, and a well-clustered small table
LeadAccessRows(name) ==
    {r \in AccessRows(name) :
        /\ r.TABLE_BYTES = 5 * MiBPerGiB
        /\ r.AVG_BYTES_SCANNED = MiBPerGiB
        /\ r.TABLE_COLUMNS = {"ID", "ORDER_DATE"}
        /\ \/ /\ r.CURRENT_CLUSTERING_KEY = NoneObj
              /\ r.AVG_PARTITION_SCAN_RATIO = 85
              /\ r.QUERY_COUNT \in {3, 60}
           \/ /\ r.CURRENT_CLUSTERING_KEY = "LINEAR(ORDER_DATE)"
              /\ r.AVG_PARTITION_SCAN_RATIO = 20
              /\ r.QUERY_COUNT = 60}

InitClustering ==
    /\ env \in EnvValues
    /\ \/ source \in {<<r>> : r \in AccessRows("T1")}
       \/ source \in {<<l, r>> : l \in LeadAccessRows("T1"), r \in AccessRows("T2")}
    /\ df = <<>>
    /\ i = 1
    /\ recommendations = <<>>
    /\ frame = NoFrame
    /\ pc = "analyze"
    /\ error = ""
    /\ call = NoCall
    /\ NoApply

\* analyze_table_access_patterns, and main()'s return on an empty frame
AnalyzeTableAccessPatterns ==
    /\ pc = "analyze"
    /\ df' = SelectSeq(source, having)
    /\ pc' = IF df' = <<>> THEN "returned" ELSE "clustering_iterrows"
    /\ UNCHANGED <<env, source, i, recommendations, frame, error, call>>
    /\ UNCHANGED applyvars

\* if not needs_clustering: continue
ClusteringContinue ==
    /\ pc = "clustering_iterrows"
    /\ i <= Len(df)
    /\ ~needs_clustering(df[i])
    /\ i' = i + 1
    /\ UNCHANGED <<env, source, df, recommendations, frame, pc, error, call>>
    /\ UNCHANGED applyvars

\* one pass of the loop body that reaches recommendations.append
ClusteringIterRow ==
    /\ pc = "clustering_iterrows"
    /\ i <= Len(df)
    /\ needs_clustering(df[i])
    /\ ~clustering_raises_TypeError(df[i])
    /\ recommendations' = Append(recommendations, clustering_rec(df[i]))
    /\ i' = i + 1
    /\ UNCHANGED <<env, source, df, frame, pc, error, call>>
    /\ UNCHANGED applyvars

\* the loop body raises: the exception leaves recommend_clustering_keys
ClusteringIterRaise ==
    /\ pc = "clustering_iterrows"
    /\ i <= Len(df)
    /\ clustering_raises_TypeError(df[i])
    /\ error' = "TypeError"
    /\ pc' = "clustering_raised"
    /\ recommendations' = <<>>
    /\ UNCHANGED <<env, source, df, i, frame, call>>
    /\ UNCHANGED applyvars

\* return pd.DataFrame(recommendations)
ClusteringReturn ==
    /\ pc = "clustering_iterrows"
    /\ i > Len(df)
    /\ pc' = "returned"
    /\ UNCHANGED <<env, source, df, i, recommendations, frame, error, call>>
    /\ UNCHANGED applyvars

\* main(): except Exception -> print, log, sys.exit(1)
ClusteringMainExcept ==
    /\ pc = "clustering_raised"
    /\ pc' = "exit1"
    /\ UNCHANGED <<env, source, df, i, recommendations, frame, error, call>>
    /\ UNCHANGED applyvars

NextClustering ==
    \/ AnalyzeTableAccessPatterns
    \/ ClusteringContinue
    \/ ClusteringIterRow
    \/ ClusteringIterRaise
    \/ ClusteringReturn
    \/ ClusteringMainExcept

SpecClustering == InitClustering /\ [][NextClustering]_vars

----------------------------------------------------------------------------
(* SnowflakeConnection.execute_script: the statements of one call, run in  *)
(* list order on one cursor.  The warehouse service may reject any         *)
(* statement; `applied` records what it has executed.                      *)

\* slip: the statements executed so far are undone when one fails
ExecuteScriptRaise_rollback ==
    /\ pc = "execute_script"
    /\ script.i <= Len(script.queries)
    /\ error' = "ProgrammingError"
    /\ pc' = "script_raised"
    /\ applied' = SubSeq(applied, 1, Len(applied) - (script.i - 1))
    /\ UNCHANGED <<env, source, df, i, recommendations, frame, call>>
    /\ UNCHANGED <<args, idle_df, suspend_df, confirmed, script, console>>

\* cursor.execute(query) raises: logged and re-raised to the caller
ExecuteScriptRaise ==
    /\ pc = "execute_script"
    /\ script.i <= Len(script.queries)
    /\ error' = "ProgrammingError"
    /\ pc' = "script_raised"
    /\ UNCHANGED <<env, source, df, i, recommendations, frame, call>>
    /\ UNCHANGED applyvars

\* cursor.execute(query) succeeds on the next statement of the list
ExecuteScriptQuery ==
    /\ pc = "execute_script"
    /\ script.i <= Len(script.queries)
    /\ applied' = Append(applied, [by |-> script.caller,
                                   query |-> script.queries[script.i]])
    /\ script' = [script EXCEPT !.i = @ + 1]
    /\ UNCHANGED <<env, source, df, i, recommendations, frame, pc, error, call>>
    /\ UNCHANGED <<args, idle_df, suspend_df, confirmed, console>>

\* the loop is over: "Successfully executed", the call returns
ExecuteScriptReturn ==
    /\ pc = "execute_script"
    /\ script.i > Len(script.queries)
    /\ pc' = "script_returned"
    /\ UNCHANGED <<env, source, df, i, recommendations, frame, error, call>>
    /\ UNCHANGED applyvars

\* a line printed on the console: its text, the count it shows and the
\* warehouses it names
Say(message, count, warehouses) ==
    [message |-> message, count |-> count, warehouses |-> warehouses]

\* the `warehouse` column of a frame
Warehouses(frm) == [k \in 1..Len(frm) |-> frm[k].warehouse]

----------------------------------------------------------------------------
(* recommend_sizes.py: main() after the recommendations are generated *)

\* `if warehouse_filter:` keeps the rows of that warehouse
MatchesFilter(name, warehouse_filter) ==
    warehouse_filter \in {NoneObj, ""} \/ name = warehouse_filter

\* recommendations_df[current_size != recommended_size], then the filter
sizing_changes(recs, warehouse_filter) ==
    SelectSeq(recs, LAMBDA r : /\ r.current_size # r.recommended_size
                               /\ MatchesFilter(r.warehouse, warehouse_filter))

\* ALTER WAREHOUSE <warehouse> SET WAREHOUSE_SIZE = '<recommended_size>'
sizing_statements(changes) ==
    [k \in 1..Len(changes) |->
        [alter |-> changes[k].warehouse,
         WAREHOUSE_SIZE |-> changes[k].recommended_size]]

\* slip: the answer of the prompt is not looked at
ApplyRecommendations_unconfirmed ==
    /\ pc = "returned"
    /\ args.prog = "recommend_sizes"
    /\ args.apply
    /\ LET changes == sizing_changes(recommendations, args.warehouse) IN
       /\ changes # <<>>
       /\ \E answer \in BOOLEAN :
             /\ confirmed' = IF answer THEN confirmed \cup {"apply_recommendations"}
                             ELSE confirmed
             /\ console' = Append(console, Say("Will resize", Len(changes),
                                               Warehouses(changes)))
             /\ script' = [caller |-> "apply_recommendations",
                           queries |-> sizing_statements(changes), i |-> 1]
             /\ pc' = "execute_script"
    /\ UNCHANGED <<env, source, df, i, recommendations, frame, error, call>>
    /\ UNCHANGED <<args, idle_df, suspend_df, applied>>

\* apply_recommendations up to its call of execute_script
ApplyRecommendations ==
    /\ pc = "returned"
    /\ args.prog = "recommend_sizes"
    /\ args.apply
    /\ LET changes == sizing_changes(recommendations, args.warehouse) IN
       IF changes = <<>>
       THEN /\ console' = Append(console, Say("No changes to apply", 0, <<>>))
            /\ pc' = "exit0"
            /\ UNCHANGED <<confirmed, script>>
       ELSE \E answer \in BOOLEAN :
               IF answer
               THEN /\ confirmed' = confirmed \cup {"apply_recommendations"}
                    /\ console' = Append(console, Say("Will resize", Len(changes),
                                                      Warehouses(changes)))
                    /\ script' = [caller |-> "apply_recommendations",
                                  queries |-> sizing_statements(changes), i |-> 1]
                    /\ pc' = "execute_script"
               ELSE /\ console' = Append(Append(console,
                                     Say("Will resize", Len(changes),
                                         Warehouses(changes))),
                                     Say("Cancelled", 0, <<>>))
                    /\ pc' = "exit0"
                    /\ UNCHANGED <<confirmed, script>>
    /\ UNCHANGED <<env, source, df, i, recommendations, frame, error, call>>
    /\ UNCHANGED <<args, idle_df, suspend_df, applied>>

\* the try/except around execute_script: the success line, or the failure
\* line and the exception re-raised to main()
ApplyRecommendationsOutcome ==
    /\ pc \in {"script_returned", "script_raised"}
    /\ script.caller = "apply_recommendations"
    /\ IF pc = "script_returned"
       THEN /\ console' = Append(console, Say("Successfully resized",
                                              Len(script.queries), <<>>))
            /\ pc' = "exit0"
       ELSE /\ console' = Append(console, Say("Failed to apply changes", 0, <<>>))
            /\ pc' = "raised"
    /\ UNCHANGED <<env, source, df, i, recommendations, frame, error, call>>
    /\ UNCHANGED <<args, idle_df, suspend_df, confirmed, script, applied>>

\* the rows a run with an apply path is started on
ApplyRows(name) ==
    {r \in Rows(name) :
        /\ r.WAREHOUSE_SIZE \in {"SMALL", "Small", "LARGE", "UNKNOWN"}
        /\ r.AVG_CREDITS_PER_HOUR \in {None, 15}
        /\ r.P95_CREDITS = 15
        /\ r.MAX_CONCURRENT_QUERIES = None
        /\ r.ACTIVE_HOURS = 1}

\* python recommend_sizes.py [--apply] [--warehouse WH1]: with --warehouse
\* the query returns that warehouse only
InitSizingMain ==
    /\ env = None
    /\ \E n \in 1..MaxApply :
          \E rows \in [1..n -> ApplyRows("WH")] :
             df = [k \in 1..n |-> [rows[k] EXCEPT !.WAREHOUSE_NAME = WarehouseName(k)]]
    /\ \E a \in BOOLEAN, w \in {NoneObj, "WH1"} :
          /\ args = [NoArgs EXCEPT !.prog = "recommend_sizes",
                                   !.apply = a, !.warehouse = w]
          /\ w # NoneObj => Len(df) = 1
    /\ i = 1 /\ recommendations = <<>> /\ source = <<>> /\ frame = NoFrame
    /\ pc = "iterrows" /\ error = "" /\ call = NoCall
    /\ idle_df = <<>> /\ suspend_df = <<>> /\ confirmed = {}
    /\ script = NoScript /\ applied = <<>> /\ console = <<>>

NextSizingMain ==
    \/ Next
    \/ ApplyRecommendations
    \/ ApplyRecommendationsOutcome

----------------------------------------------------------------------------
(* configure_scaling.py: main() after the recommendations are generated *)

\* the != of two columns; NaN differs from everything
Ne(a, b) == a = NaN \/ b = NaN \/ a # b

\* the rows counted under "Warehouses Needing Configuration Change"
needs_changes(recs) ==
    SelectSeq(recs, LAMBDA r :
        \/ Ne(r.current_min_clusters, r.recommended_min_clusters)
        \/ Ne(r.current_max_clusters, r.recommended_max_clusters))

\* the rows apply_scaling_configuration turns into statements
scaling_changes(recs, warehouse_filter) ==
    SelectSeq(recs, LAMBDA r :
        /\ \/ Ne(r.current_min_clusters, r.recommended_min_clusters)
           \/ Ne(r.current_max_clusters, r.recommended_max_clusters)
           \/ /\ r.current_policy # r.recommended_policy
              /\ r.recommended_policy # "N/A"
        /\ MatchesFilter(r.warehouse, warehouse_filter))

\* ALTER WAREHOUSE <warehouse> SET MIN_CLUSTER_COUNT = .. MAX_CLUSTER_COUNT = ..
\* and, unless the policy is N/A, SCALING_POLICY = '..'
scaling_statements(changes) ==
    [k \in 1..Len(changes) |->
        [alter |-> changes[k].warehouse,
         MIN_CLUSTER_COUNT |-> changes[k].recommended_min_clusters,
         MAX_CLUSTER_COUNT |-> changes[k].recommended_max_clusters,
         SCALING_POLICY |-> changes[k].recommended_policy]]

\* display_scaling_recommendations: the summary lines
DisplayScalingRecommendations ==
    /\ pc = "returned"
    /\ args.prog = "configure_scaling"
    /\ console' = console \o
          <<Say("Warehouses Analyzed", Len(recommendations), <<>>),
            Say("Warehouses Needing Multi-Cluster",
                Len(SelectSeq(recommendations, LAMBDA r : r.needs_multi_cluster)),
                <<>>),
            Say("Warehouses Needing Configuration Change",
                Len(needs_changes(recommendations)), <<>>)>>
    /\ pc' = "displayed"
    /\ UNCHANGED <<env, source, df, i, recommendations, frame, error, call>>
    /\ UNCHANGED <<args, idle_df, suspend_df, confirmed, script, applied>>

\* apply_scaling_configuration up to its call of execute_script
ApplyScalingConfiguration ==
    /\ pc = "displayed"
    /\ args.prog = "configure_scaling"
    /\ args.apply
    /\ LET changes == scaling_changes(recommendations, args.warehouse) IN
       IF changes = <<>>
       THEN /\ console' = Append(console, Say("No changes to apply", 0, <<>>))
            /\ pc' = "exit0"
            /\ UNCHANGED <<confirmed, script>>
       ELSE \E answer \in BOOLEAN :
               IF answer
               THEN /\ confirmed' = confirmed \cup {"apply_scaling_configuration"}
                    /\ console' = Append(console,
                                     Say("Will configure scaling for", Len(changes),
                                         Warehouses(changes)))
                    /\ script' = [caller |-> "apply_scaling_configuration",
                                  queries |-> scaling_statements(changes), i |-> 1]
                    /\ pc' = "execute_script"
               ELSE /\ console' = Append(Append(console,
                                     Say("Will configure scaling for", Len(changes),
                                         Warehouses(changes))),
                                     Say("Cancelled", 0, <<>>))
                    /\ pc' = "exit0"
                    /\ UNCHANGED <<confirmed, script>>
    /\ UNCHANGED <<env, source, df, i, recommendations, frame, error, call>>
    /\ UNCHANGED <<args, idle_df, suspend_df, applied>>

\* the try/except around execute_script
ApplyScalingConfigurationOutcome ==
    /\ pc \in {"script_returned", "script_raised"}
    /\ script.caller = "apply_scaling_configuration"
    /\ IF pc = "script_returned"
       THEN /\ console' = Append(console, Say("Successfully configured",
                                              Len(script.queries), <<>>))
            /\ pc' = "exit0"
       ELSE /\ console' = Append(console, Say("Failed to apply changes", 0, <<>>))
            /\ pc' = "scaling_raised"
    /\ UNCHANGED <<env, source, df, i, recommendations, frame, error, call>>
    /\ UNCHANGED <<args, idle_df, suspend_df, confirmed, script, applied>>

\* the rows a scaling run with an apply path is started on: quiet and busy
\* warehouses, single-cluster, already multi-cluster, and with a null
\* cluster count or a null P95
ScalingMainRows(name) ==
    {ScalingRow(name, c, q, w, g, <<None, None, None>>) :
        c \in {<<40, 40>>, <<400, 160>>, <<400, None>>},
        q \in {<<0, 100, 0>>},
        w \in {<<121, 60>>, <<120, 60>>},
        g \in {<<1, 1, NoneObj>>, <<2, 6, "STANDARD">>, <<1, NaN, NoneObj>>}}

\* python configure_scaling.py [--apply] [--warehouse WH1]
InitScalingMain ==
    /\ env = None
    /\ \E n \in 1..MaxBatch :
          \E rows \in [1..n -> ScalingMainRows("WH")] :
             df = [k \in 1..n |-> [rows[k] EXCEPT !.WAREHOUSE_NAME = WarehouseName(k)]]
    /\ \E a \in BOOLEAN, w \in {NoneObj, "WH1"} :
          /\ args = [NoArgs EXCEPT !.prog = "configure_scaling",
                                   !.apply = a, !.warehouse = w]
          /\ w # NoneObj => Len(df) = 1
    /\ i = 1 /\ recommendations = <<>> /\ source = <<>> /\ frame = NoFrame
    /\ pc = "scaling_iterrows" /\ error = "" /\ call = NoCall
    /\ idle_df = <<>> /\ suspend_df = <<>> /\ confirmed = {}
    /\ script = NoScript /\ applied = <<>> /\ console = <<>>

NextScalingMain ==
    \/ NextScaling
    \/ DisplayScalingRecommendations
    \/ ApplyScalingConfiguration
    \/ ApplyScalingConfigurationOutcome

----------------------------------------------------------------------------
(* find_idle_warehouses.py.  Minutes and seconds are whole numbers, credits *)
(* are in tenths, money in tenths of a dollar.                             *)

\* categorize_idle_status
idle_status(row) ==
    IF ~notna(row.MINUTES_SINCE_LAST_USE) THEN "NEVER_USED"
    ELSE IF row.MINUTES_SINCE_LAST_USE > 10080 THEN "ABANDONED"
    ELSE IF row.MINUTES_SINCE_LAST_USE > 1440 THEN "VERY_IDLE"
    ELSE "IDLE"

\* a row of the frame find_idle_warehouses returns
idle_row(row) ==
    [WAREHOUSE_NAME |-> row.WAREHOUSE_NAME,
     WAREHOUSE_SIZE |-> row.WAREHOUSE_SIZE,
     CURRENT_STATE |-> row.CURRENT_STATE,
     MINUTES_SINCE_LAST_USE |-> row.MINUTES_SINCE_LAST_USE,
     size_credits_per_hour |-> parse_warehouse_size(row.WAREHOUSE_SIZE),
     monthly_waste_if_running |->
         calculate_cost(Tenths(parse_warehouse_size(row.WAREHOUSE_SIZE)) * 24 * 30),
     idle_status |-> idle_status(row)]

\* calculate_optimal_suspend
optimal_auto_suspend(row) ==
    IF ~notna(row.MEDIAN_SECONDS_BETWEEN_QUERIES) \/ row.QUERIES_LAST_7D < 10
    THEN 300
    ELSE IF row.MEDIAN_SECONDS_BETWEEN_QUERIES < 60 THEN 60
    ELSE IF row.MEDIAN_SECONDS_BETWEEN_QUERIES < 300 THEN 180
    ELSE IF row.MEDIAN_SECONDS_BETWEEN_QUERIES < 600 THEN 300
    ELSE 600

\* calculate_cost(IDLE_CREDITS_LAST_7D or 0) * 4
suspend_savings_potential(row) ==
    calculate_cost(Or(row.IDLE_CREDITS_LAST_7D, 0)) * 4

\* identify_suspend_issue
issues(row) ==
    (IF ~notna(row.AUTO_SUSPEND_SECONDS) THEN <<"Auto-suspend disabled">>
     ELSE IF row.AUTO_SUSPEND_SECONDS > 600 THEN <<"Auto-suspend too long">>
     ELSE IF row.AUTO_SUSPEND_SECONDS < 60 THEN <<"Auto-suspend very aggressive">>
     ELSE <<>>)
    \o (IF Or(row.AUTO_RESUME_ENABLED, 0) = 0 THEN <<"Auto-resume disabled">>
        ELSE <<>>)
    \o (IF Or(row.IDLE_CREDITS_LAST_7D, 0) # 0 /\ row.IDLE_CREDITS_LAST_7D > Tenths(1)
        THEN <<"Idle waste">> ELSE <<>>)
    \o (IF Or(row.QUERIES_LAST_7D, 0) = 0 \/ row.QUERIES_LAST_7D < 10
        THEN <<"Very low usage">> ELSE <<>>)

\* a row of the frame analyze_auto_suspend_settings returns; 'OK' is the
\* empty list of issues
suspend_row(row) ==
    [WAREHOUSE_NAME |-> row.WAREHOUSE_NAME,
     AUTO_SUSPEND_SECONDS |-> row.AUTO_SUSPEND_SECONDS,
     AUTO_RESUME_ENABLED |-> row.AUTO_RESUME_ENABLED,
     QUERIES_LAST_7D |-> row.QUERIES_LAST_7D,
     MEDIAN_SECONDS_BETWEEN_QUERIES |-> row.MEDIAN_SECONDS_BETWEEN_QUERIES,
     IDLE_CREDITS_LAST_7D |-> row.IDLE_CREDITS_LAST_7D,
     optimal_auto_suspend |-> optimal_auto_suspend(row),
     suspend_savings_potential |-> suspend_savings_potential(row),
     issues |-> issues(row)]

\* idle_status in ['ABANDONED', 'VERY_IDLE'] and CURRENT_STATE != 'SUSPENDED'
to_suspend(frm) ==
    SelectSeq(frm, LAMBDA r : /\ r.idle_status \in {"ABANDONED", "VERY_IDLE"}
                              /\ r.CURRENT_STATE # "SUSPENDED")

\* issues != 'OK' and suspend_savings_potential > 10
to_optimize(frm) ==
    SelectSeq(frm, LAMBDA r : /\ r.issues # <<>>
                              /\ Gt(r.suspend_savings_potential, Tenths(10)))

\* ALTER WAREHOUSE <name> SUSPEND
suspend_statements(frm) ==
    [k \in 1..Len(frm) |-> [alter |-> frm[k].WAREHOUSE_NAME, SUSPEND |-> TRUE]]

\* ALTER WAREHOUSE <name> SET AUTO_SUSPEND = <optimal> AUTO_RESUME = TRUE
optimize_statements(frm) ==
    [k \in 1..Len(frm) |-> [alter |-> frm[k].WAREHOUSE_NAME,
                            AUTO_SUSPEND |-> frm[k].optimal_auto_suspend,
                            AUTO_RESUME |-> TRUE]]

\* the WAREHOUSE_NAME column of a frame
WarehouseNames(frm) == [k \in 1..Len(frm) |-> frm[k].WAREHOUSE_NAME]

\* find_idle_warehouses: the derived columns are added to the query's rows
FindIdleWarehouses ==
    /\ pc = "idle_start"
    /\ idle_df' = [k \in 1..Len(idle_df) |-> idle_row(idle_df[k])]
    /\ pc' = "idle_found"
    /\ UNCHANGED <<env, source, df, i, recommendations, frame, error, call>>
    /\ UNCHANGED <<args, suspend_df, confirmed, script, applied, console>>

\* analyze_auto_suspend_settings
AnalyzeAutoSuspendSettings ==
    /\ pc = "idle_found"
    /\ suspend_df' = [k \in 1..Len(suspend_df) |-> suspend_row(suspend_df[k])]
    /\ pc' = "idle_analyzed"
    /\ UNCHANGED <<env, source, df, i, recommendations, frame, error, call>>
    /\ UNCHANGED <<args, idle_df, confirmed, script, applied, console>>

\* display_idle_report: the count of idle warehouses, when there are any
DisplayIdleReport ==
    /\ pc = "idle_analyzed"
    /\ console' = IF idle_df # <<>>
                  THEN Append(console, Say("Total Idle Warehouses", Len(idle_df), <<>>))
                  ELSE console
    /\ pc' = "idle_displayed"
    /\ UNCHANGED <<env, source, df, i, recommendations, frame, error, call>>
    /\ UNCHANGED <<args, idle_df, suspend_df, confirmed, script, applied>>

\* main(): `if args.suspend and not idle_df.empty`, then
\* suspend_idle_warehouses up to its call of execute_script
SuspendIdleWarehouses ==
    /\ pc = "idle_displayed"
    /\ IF ~(args.suspend /\ idle_df # <<>>)
       THEN /\ pc' = "idle_suspended"
            /\ UNCHANGED <<confirmed, script, console>>
       ELSE LET changes == to_suspend(idle_df) IN
            IF changes = <<>>
            THEN /\ console' = Append(console, Say("No warehouses to suspend", 0, <<>>))
                 /\ pc' = "idle_suspended"
                 /\ UNCHANGED <<confirmed, script>>
            ELSE \E answer \in BOOLEAN :
                    IF answer
                    THEN /\ confirmed' = confirmed \cup {"suspend_idle_warehouses"}
                         /\ console' = Append(console, Say("Will suspend",
                                           Len(changes), WarehouseNames(changes)))
                         /\ script' = [caller |-> "suspend_idle_warehouses",
                                       queries |-> suspend_statements(changes),
                                       i |-> 1]
                         /\ pc' = "execute_script"
                    ELSE /\ console' = Append(Append(console,
                                          Say("Will suspend", Len(changes),
                                              WarehouseNames(changes))),
                                          Say("Cancelled", 0, <<>>))
                         /\ pc' = "idle_suspended"
                         /\ UNCHANGED <<confirmed, script>>
    /\ UNCHANGED <<env, source, df, i, recommendations, frame, error, call>>
    /\ UNCHANGED <<args, idle_df, suspend_df, applied>>

\* the try/except around execute_script in suspend_idle_warehouses
SuspendIdleWarehousesOutcome ==
    /\ pc \in {"script_returned", "script_raised"}
    /\ script.caller = "suspend_idle_warehouses"
    /\ IF pc = "script_returned"
       THEN /\ console' = Append(console, Say("Successfully suspended",
                                              Len(script.queries), <<>>))
            /\ pc' = "idle_suspended"
       ELSE /\ console' = Append(console, Say("Failed to suspend warehouses", 0, <<>>))
            /\ pc' = "idle_raised"
    /\ UNCHANGED <<env, source, df, i, recommendations, frame, error, call>>
    /\ UNCHANGED <<args, idle_df, suspend_df, confirmed, script, applied>>

\* main(): `if args.optimize_suspend and not suspend_df.empty`, then
\* optimize_auto_suspend up to its call of execute_script
OptimizeAutoSuspend ==
    /\ pc = "idle_suspended"
    /\ IF ~(args.optimize_suspend /\ suspend_df # <<>>)
       THEN /\ pc' = "exit0"
            /\ UNCHANGED <<confirmed, script, console>>
       ELSE LET changes == to_optimize(suspend_df) IN
            IF changes = <<>>
            THEN /\ console' = Append(console,
                                 Say("No auto-suspend optimizations needed", 0, <<>>))
                 /\ pc' = "exit0"
                 /\ UNCHANGED <<confirmed, script>>
            ELSE \E answer \in BOOLEAN :
                    IF answer
                    THEN /\ confirmed' = confirmed \cup {"optimize_auto_suspend"}
                         /\ console' = Append(console, Say("Will optimize auto-suspend for",
                                           Len(changes), WarehouseNames(changes)))
                         /\ script' = [caller |-> "optimize_auto_suspend",
                                       queries |-> optimize_statements(changes),
                                       i |-> 1]
                         /\ pc' = "execute_script"
                    ELSE /\ console' = Append(Append(console,
                                          Say("Will optimize auto-suspend for",
                                              Len(changes), WarehouseNames(changes))),
                                          Say("Cancelled", 0, <<>>))
                         /\ pc' = "exit0"
                         /\ UNCHANGED <<confirmed, script>>
    /\ UNCHANGED <<env, source, df, i, recommendations, frame, error, call>>
    /\ UNCHANGED <<args, idle_df, suspend_df, applied>>

\* the try/except around execute_script in optimize_auto_suspend
OptimizeAutoSuspendOutcome ==
    /\ pc \in {"script_returned", "script_raised"}
    /\ script.caller = "optimize_auto_suspend"
    /\ IF pc = "script_returned"
       THEN /\ console' = Append(console, Say("Successfully optimized",
                                              Len(script.queries), <<>>))
            /\ pc' = "exit0"
       ELSE /\ console' = Append(console, Say("Failed to optimize", 0, <<>>))
            /\ pc' = "idle_raised"
    /\ UNCHANGED <<env, source, df, i, recommendations, frame, error, call>>
    /\ UNCHANGED <<args, idle_df, suspend_df, confirmed, script, applied>>

\* main(): except Exception -> print, log, sys.exit(1)
IdleMainExcept ==
    /\ pc = "idle_raised"
    /\ pc' = "exit1"
    /\ UNCHANGED <<env, source, df, i, recommendations, frame, error, call>>
    /\ UNCHANGED applyvars

\* rows of the idle-warehouse query: last use in minutes, NULL when the
\* warehouse has no metering in the window
IdleRows(name) ==
    {[WAREHOUSE_NAME |-> name, WAREHOUSE_SIZE |-> "SMALL",
      CURRENT_STATE |-> st[1], MINUTES_SINCE_LAST_USE |-> st[2]] :
        st \in {<<"STARTED", 10081>>, <<"SUSPENDED", 10081>>, <<"STARTED", 1441>>,
                <<"STARTED", 1440>>, <<"STARTED", None>>}}

\* rows of the auto-suspend query, which selects NULL for the auto-suspend
\* and auto-resume settings
SuspendRows(name) ==
    {[WAREHOUSE_NAME |-> name, AUTO_SUSPEND_SECONDS |-> None,
      AUTO_RESUME_ENABLED |-> None, QUERIES_LAST_7D |-> u[1],
      MEDIAN_SECONDS_BETWEEN_QUERIES |-> u[2], IDLE_CREDITS_LAST_7D |-> c] :
        u \in {<<0, None>>, <<10, 60>>}, c \in {8, 9}}

\* the frames of n rows, named WH1, WH2, ...
Frames(rows, n) ==
    {[k \in 1..m |-> [f[k] EXCEPT !.WAREHOUSE_NAME = WarehouseName(k)]] :
        m \in {n}, f \in [1..n -> rows]}

\* python find_idle_warehouses.py [--suspend] [--optimize-suspend]
InitIdleMain ==
    /\ env = None
    /\ \E n \in 0..MaxBatch : idle_df \in Frames(IdleRows("WH"), n)
    /\ \E n \in 0..MaxBatch : suspend_df \in Frames(SuspendRows("WH"), n)
    /\ \E a \in BOOLEAN, b \in BOOLEAN :
          args = [NoArgs EXCEPT !.prog = "find_idle_warehouses",
                                !.suspend = a, !.optimize_suspend = b]
    /\ df = <<>> /\ i = 1 /\ recommendations = <<>> /\ source = <<>>
    /\ frame = NoFrame /\ pc = "idle_start" /\ error = "" /\ call = NoCall
    /\ confirmed = {} /\ script = NoScript /\ applied = <<>> /\ console = <<>>

NextIdleMain ==
    \/ FindIdleWarehouses
    \/ AnalyzeAutoSuspendSettings
    \/ DisplayIdleReport
    \/ SuspendIdleWarehouses
    \/ SuspendIdleWarehousesOutcome
    \/ OptimizeAutoSuspend
    \/ OptimizeAutoSuspendOutcome
    \/ IdleMainExcept

NextExecuteScript ==
    \/ ExecuteScriptQuery
    \/ ExecuteScriptRaise
    \/ ExecuteScriptReturn

InitMain == InitSizingMain \/ InitScalingMain \/ InitIdleMain

NextMain ==
    NextSizingMain \/ NextScalingMain \/ NextIdleMain \/ NextExecuteScript

SpecMain == InitMain /\ [][NextMain]_vars

----------------------------------------------------------------------------
(* The ladder utilities called on their own, in both orders:               *)
(*   recommend_parse: parse_warehouse_size(recommend_warehouse_size(v))    *)
(*   parse_recommend: recommend_warehouse_size(parse_warehouse_size(c))    *)

InitLadder ==
    /\ env = None
    /\ df = <<>>
    /\ i = 1
    /\ recommendations = <<>>
    /\ source = <<>>
    /\ frame = NoFrame
    /\ pc = "utils"
    /\ error = ""
    /\ NoApply
    /\ \/ \E v \in (0 - 10)..MaxCreditTenths :
             call = [NoCall EXCEPT !.chain = "recommend_parse", !.arg_credits = v]
       \/ \E c \in SizeLabels :
             call = [NoCall EXCEPT !.chain = "parse_recommend", !.arg_size = c]

RecommendCall ==
    /\ pc = "utils"
    /\ \/ /\ call.chain = "recommend_parse" /\ call.stage = 0
          /\ call' = [call EXCEPT !.stage = 1,
                                   !.size = recommend_warehouse_size(call.arg_credits)]
       \/ /\ call.chain = "parse_recommend" /\ call.stage = 1
          /\ call' = [call EXCEPT !.stage = 2,
                                   !.size = recommend_warehouse_size(Tenths(call.credits))]
    /\ UNCHANGED <<env, source, df, i, recommendations, frame, pc, error>>
    /\ UNCHANGED applyvars

ParseCall ==
    /\ pc = "utils"
    /\ \/ /\ call.chain = "parse_recommend" /\ call.stage = 0
          /\ call' = [call EXCEPT !.stage = 1,
                                   !.credits = parse_warehouse_size(call.arg_size)]
       \/ /\ call.chain = "recommend_parse" /\ call.stage = 1
          /\ call' = [call EXCEPT !.stage = 2,
                                   !.credits = parse_warehouse_size(call.size)]
    /\ UNCHANGED <<env, source, df, i, recommendations, frame, pc, error>>
    /\ UNCHANGED applyvars

NextLadder == RecommendCall \/ ParseCall

SpecLadder == InitLadder /\ [][NextLadder]_vars

----------------------------------------------------------------------------
(* Vocabulary of the properties *)

LadderTiers == DOMAIN size_to_credits

\* the tiers whose capacity is at least v tenths of a credit
Covering(v) == {s \in LadderTiers : Tenths(size_to_credits[s]) >= v}

\* s is the lowest-capacity tier covering v, or the top tier when none does
IsSmallestTier(s, v) ==
    IF Covering(v) = {}
    THEN s = "6X-LARGE"
    ELSE s \in Covering(v) /\
         \A t \in Covering(v) : size_to_credits[s] <= size_to_credits[t]

\* the statistic is present in the profile
Present(row) == notna(row.AVG_CREDITS_PER_HOUR) /\ notna(row.P95_CREDITS)

\* indices of the rows for which a recommendation has been appended
Done == 1..Len(recommendations)

\* the rules of the decision order, as the specification words them
HighConcurrencyRule(row) ==
    /\ notna(row.MAX_CONCURRENT_QUERIES)
    /\ row.MAX_CONCURRENT_QUERIES > parse_warehouse_size(row.WAREHOUSE_SIZE) * 8

OversizedRule(row) ==
    2 * row.AVG_CREDITS_PER_HOUR < Tenths(parse_warehouse_size(row.WAREHOUSE_SIZE))

SpikyRule(row) == 2 * row.P95_CREDITS > 3 * row.AVG_CREDITS_PER_HOUR

----------------------------------------------------------------------------
(* C1: for every non-negative credits-per-hour value v,                    *)
(* recommend_warehouse_size(v) is the lowest-capacity tier of the ladder   *)
(* 1, 2, 4, ..., 512 whose capacity is >= v, and the top tier 6X-LARGE     *)
(* when v exceeds every capacity.                                          *)
C1_SmallestTier ==
    (call.chain = "recommend_parse" /\ call.stage >= 1 /\ call.arg_credits >= 0)
        => /\ {size_to_credits[s] : s \in LadderTiers}
                 = {1, 2, 4, 8, 16, 32, 64, 128, 256, 512}
           /\ call.size \in LadderTiers
           /\ IsSmallestTier(call.size, call.arg_credits)

\* a value above every capacity has been clamped to the top tier
C1_Witness ==
    /\ call.chain = "recommend_parse" /\ call.stage >= 1
    /\ call.arg_credits > Tenths(512)
    /\ call.size = "6X-LARGE"

(* C2: exactness at tier boundaries: for every tier c of the ladder,       *)
(* recommend_warehouse_size(parse_warehouse_size(c)) = c, and              *)
(* parse_warehouse_size(recommend_warehouse_size(k)) = k for every ladder  *)
(* capacity k.                                                             *)
C2_Exactness ==
    /\ (call.chain = "parse_recommend" /\ call.stage = 2
            /\ call.arg_size \in LadderTiers)
          => call.size = call.arg_size
    /\ (call.chain = "recommend_parse" /\ call.stage = 2
            /\ \E s \in LadderTiers : call.arg_credits = Tenths(size_to_credits[s]))
          => Tenths(call.credits) = call.arg_credits

\* the top tier has made the round trip
C2_Witness ==
    /\ call.chain = "parse_recommend" /\ call.stage = 2
    /\ call.arg_size = "6X-LARGE" /\ call.credits = 512
    /\ call.size = "6X-LARGE"

(* C3: monotonicity of the sizing advisor: of two profiles that differ     *)
(* only in average, average1 < average2, neither taking the                *)
(* high-concurrency, oversized or spiky arm, the first is recommended a    *)
(* capacity no larger than the second.                                     *)
C3_Monotonic ==
    (/\ pc = "returned" /\ Len(df) = 2 /\ Len(recommendations) = 2
     /\ Present(df[1]) /\ Present(df[2])
     /\ df[2] = [df[1] EXCEPT !.WAREHOUSE_NAME = "WH2",
                              !.AVG_CREDITS_PER_HOUR = df[2].AVG_CREDITS_PER_HOUR]
     /\ df[1].AVG_CREDITS_PER_HOUR < df[2].AVG_CREDITS_PER_HOUR
     /\ \A k \in {1, 2} : /\ ~HighConcurrencyRule(df[k])
                          /\ ~OversizedRule(df[k])
                          /\ ~SpikyRule(df[k]))
        => recommendations[1].recommended_credits_per_hour
             <= recommendations[2].recommended_credits_per_hour

\* two consistent workloads, the larger average landing on a larger tier
C3_Witness ==
    /\ pc = "returned" /\ Len(df) = 2 /\ Len(recommendations) = 2
    /\ df[1].AVG_CREDITS_PER_HOUR < df[2].AVG_CREDITS_PER_HOUR
    /\ recommendations[1].rationale = "consistent"
    /\ recommendations[2].rationale = "consistent"
    /\ recommendations[1].recommended_credits_per_hour
         < recommendations[2].recommended_credits_per_hour

(* C4: the high-concurrency rule wins first: whenever maxConcurrent is     *)
(* present and maxConcurrent > currentCapacity * 8, the advisor recommends *)
(* the P95 tier with confidence MEDIUM, whether or not the oversized or    *)
(* spiky conditions hold too; in every other case the confidence is HIGH.  *)
C4_HighConcurrencyFirst ==
    \A k \in Done :
        Present(df[k]) =>
            IF HighConcurrencyRule(df[k])
            THEN /\ IsSmallestTier(recommendations[k].recommended_size,
                                   df[k].P95_CREDITS)
                 /\ recommendations[k].confidence = "MEDIUM"
            ELSE recommendations[k].confidence = "HIGH"

\* high concurrency on a warehouse that is also oversized and spiky, and the
\* P95 tier differs from the average tier
C4_Witness ==
    \E k \in Done :
        /\ Present(df[k])
        /\ HighConcurrencyRule(df[k]) /\ OversizedRule(df[k]) /\ SpikyRule(df[k])
        /\ recommendations[k].confidence = "MEDIUM"
        /\ ~IsSmallestTier(recommendations[k].recommended_size,
                           df[k].AVG_CREDITS_PER_HOUR)

\* Scenario A: average 1.0, p95 1.1, current capacity 8
ScenarioA(row) ==
    /\ row.AVG_CREDITS_PER_HOUR = 10
    /\ row.P95_CREDITS = 11
    /\ parse_warehouse_size(row.WAREHOUSE_SIZE) = 8

(* C5: the oversized rule: when the high-concurrency rule does not fire    *)
(* and average < currentCapacity * 0.5, the advisor recommends the P95     *)
(* tier, not the average tier, with confidence HIGH; average 1.0, p95 1.1, *)
(* current capacity 8 yields SMALL, HIGH and positive savings.             *)
C5_Oversized ==
    \A k \in Done :
        (Present(df[k]) /\ ~HighConcurrencyRule(df[k]) /\ OversizedRule(df[k]))
            => /\ IsSmallestTier(recommendations[k].recommended_size,
                                 df[k].P95_CREDITS)
               /\ recommendations[k].confidence = "HIGH"
               /\ ScenarioA(df[k])
                    => /\ recommendations[k].recommended_size = "SMALL"
                       /\ recommendations[k].estimated_savings.num > 0
                       /\ recommendations[k].estimated_savings.den > 0

\* Scenario A has been answered
C5_Witness ==
    \E k \in Done :
        /\ ScenarioA(df[k]) /\ ~HighConcurrencyRule(df[k])
        /\ recommendations[k].rationale = "oversized"
        /\ recommendations[k].recommended_size = "SMALL"

(* C6: the spiky and default rules: when neither the high-concurrency nor  *)
(* the oversized rule fires, the advisor recommends the P95 tier if        *)
(* p95 > average * 1.5 (strictly) and the average tier otherwise, with     *)
(* confidence HIGH in both cases; exactly one of the four rules determines *)
(* the recommended size of every profile.                                  *)
C6_SpikyDefault ==
    \A k \in Done :
        Present(df[k]) =>
            /\ (~HighConcurrencyRule(df[k]) /\ ~OversizedRule(df[k]))
                  => /\ recommendations[k].confidence = "HIGH"
                     /\ IsSmallestTier(recommendations[k].recommended_size,
                                       IF SpikyRule(df[k])
                                       THEN df[k].P95_CREDITS
                                       ELSE df[k].AVG_CREDITS_PER_HOUR)
            /\ recommendations[k].rationale =
                  (IF HighConcurrencyRule(df[k]) THEN "high_concurrency"
                   ELSE IF OversizedRule(df[k]) THEN "oversized"
                   ELSE IF SpikyRule(df[k]) THEN "spiky"
                   ELSE "consistent")

\* p95 exactly 1.5 times the average is not spiky: the average tier is chosen
\* although the P95 tier is a larger one
C6_Witness ==
    \E k \in Done :
        /\ Present(df[k]) /\ df[k].AVG_CREDITS_PER_HOUR > 0
        /\ 2 * df[k].P95_CREDITS = 3 * df[k].AVG_CREDITS_PER_HOUR
        /\ recommendations[k].rationale = "consistent"
        /\ ~IsSmallestTier(recommendations[k].recommended_size, df[k].P95_CREDITS)

\* the current size label is on the ladder
KnownSize(row) == parse_warehouse_size(row.WAREHOUSE_SIZE) > 0

(* C7 as stated: for a warehouse of known capacity the estimated savings   *)
(* is rate * currentCapacity * activeHours                                 *)
(*    - rate * recommendedCapacity * activeHours.                          *)
C7_AsStated ==
    \A k \in Done :
        (Present(df[k]) /\ KnownSize(df[k])) =>
            recommendations[k].estimated_savings.num =
                recommendations[k].estimated_savings.den *
                Tenths(get_warehouse_credit_cost
                         * recommendations[k].current_credits_per_hour
                         * df[k].ACTIVE_HOURS
                       - get_warehouse_credit_cost
                         * recommendations[k].recommended_credits_per_hour
                         * df[k].ACTIVE_HOURS)

(* C7 amended: for a warehouse of known capacity the estimated savings is  *)
(* the cost of the credits actually used, rate * average * activeHours,    *)
(* minus that cost scaled by recommendedCapacity / currentCapacity, i.e.   *)
(* rate * average * activeHours * (current - recommended) / current.       *)
C7_UsageScaled ==
    \A k \in Done :
        (Present(df[k]) /\ KnownSize(df[k])) =>
            /\ recommendations[k].estimated_savings.den =
                  recommendations[k].current_credits_per_hour
            /\ recommendations[k].estimated_savings.num =
                  get_warehouse_credit_cost
                  * df[k].AVG_CREDITS_PER_HOUR * df[k].ACTIVE_HOURS
                  * (recommendations[k].current_credits_per_hour
                     - recommendations[k].recommended_credits_per_hour)

\* Scenario A over two hours: 3 * 1.0 * 2 * (8 - 2) / 8 = 4.5 dollars
C7_Witness ==
    \E k \in Done :
        /\ ScenarioA(df[k]) /\ df[k].ACTIVE_HOURS = 2 /\ env = None
        /\ recommendations[k].recommended_credits_per_hour = 2
        /\ recommendations[k].estimated_savings = [num |-> 360, den |-> 8]

C9_UnknownSize ==
    /\ (/\ pc = "raised" /\ Present(df[i]) /\ ~KnownSize(df[i])
         /\ df[i].AVG_CREDITS_PER_HOUR >= 0)
          => error # "ZeroDivisionError"
    /\ \A k \in Done :
          (Present(df[k]) /\ ~KnownSize(df[k]) /\ df[k].AVG_CREDITS_PER_HOUR >= 0)
              => /\ recommendations[k].savings_pct.num = 0
                 /\ recommendations[k].estimated_savings.num = 0

(* C10: when a profile's average or p95 is absent, the advisor declines to *)
(* recommend for that entity with an InsufficientData outcome attached to  *)
(* the entity; no recommendation is computed from a missing statistic.     *)
C10_InsufficientData ==
    /\ \A k \in Done : Present(df[k])
    /\ (pc = "raised" /\ ~Present(df[i])) => error = "InsufficientData"

\* the loop body of the sizing advisor completes on this row
SizingRowValid(row) == ~raises_TypeError(row) /\ ~raises_ZeroDivisionError(row)

\* the run is over: the DataFrame was returned, or main() has handled the error
BatchOver == pc \in {"returned", "exit1"}

(* C11: batch isolation: an error raised while computing one entity's      *)
(* recommendation does not abort the batch; every other entity with a      *)
(* valid profile still receives its recommendation, and the failing        *)
(* entity's error is collected alongside the successful recommendations.   *)
C11_BatchIsolation ==
    BatchOver =>
        \A k \in 1..Len(df) :
            SizingRowValid(df[k])
                => \E j \in Done :
                      recommendations[j].warehouse = df[k].WAREHOUSE_NAME

----------------------------------------------------------------------------
(* The scaling advisor's claims, stated on the rows of the batch and the   *)
(* recommendations emitted for them (recommendation k belongs to row k).   *)

\* an absent count is no hours
HoursWithQueuing(row) ==
    IF row.HOURS_WITH_QUEUING \in {None, NaN} THEN 0 ELSE row.HOURS_WITH_QUEUING

\* queuedHoursPct > n, the percentage being 0 when there are no active hours
QueuedHoursPctOver(row, n) ==
    /\ row.ACTIVE_HOURS_TOTAL # 0
    /\ HoursWithQueuing(row) * 100 > n * row.ACTIVE_HOURS_TOTAL

NeedsRule(row) ==
    \/ row.ABSOLUTE_PEAK_CONCURRENT > Tenths(8)
    \/ QueuedHoursPctOver(row, 5)
    \/ row.MAX_QUEUED > Tenths(5)

\* the loop is past row k: it emitted for it, or it raised on it
Handled(k) == i > k \/ (i = k /\ pc \in {"scaling_raised", "exit1"})

(* C12: needsMultiCluster is true exactly when peak concurrency > 8, or    *)
(* the percentage of active hours with queuing > 5, or the maximum queue   *)
(* depth > 5 (all strict); the percentage is 0 when there are no active    *)
(* hours.                                                                  *)
C12_NeedsMultiCluster ==
    \A k \in Done :
        /\ recommendations[k].needs_multi_cluster = NeedsRule(df[k])
        /\ df[k].ACTIVE_HOURS_TOTAL = 0 => recommendations[k].queue_percentage.num = 0

C12_Witness ==
    \E k \in Done :
        /\ df[k].ACTIVE_HOURS_TOTAL = 0
        /\ df[k].ABSOLUTE_PEAK_CONCURRENT = Tenths(8)
        /\ ~recommendations[k].needs_multi_cluster

(* C13: every warehouse that does not need multi-cluster is recommended    *)
(* min = max = 1 cluster, no scaling policy and confidence HIGH, whatever  *)
(* its current cluster bounds.                                             *)
C13_SingleCluster ==
    \A k \in 1..Len(df) :
        (Handled(k) /\ ~NeedsRule(df[k])) =>
            /\ k \in Done
            /\ recommendations[k].recommended_min_clusters = 1
            /\ recommendations[k].recommended_max_clusters = 1
            /\ recommendations[k].recommended_policy = "N/A"
            /\ recommendations[k].confidence = "HIGH"

Floor8(x) == x \div Tenths(8)

(* C14: when multi-cluster is needed, the recommended minimum is           *)
(* max(1, floor(p95 / 8)) and the recommended maximum is                   *)
(* min(10, max(minimum, floor(peak / 8) + 1)); the maximum never exceeds   *)
(* 10.                                                                     *)
C14_ClusterBounds ==
    \A k \in Done :
        NeedsRule(df[k]) =>
            LET rmin == IF Floor8(df[k].P95_CONCURRENT) > 1
                        THEN Floor8(df[k].P95_CONCURRENT) ELSE 1
                uncapped == IF Floor8(df[k].ABSOLUTE_PEAK_CONCURRENT) + 1 > rmin
                            THEN Floor8(df[k].ABSOLUTE_PEAK_CONCURRENT) + 1 ELSE rmin
            IN /\ recommendations[k].recommended_min_clusters = rmin
               /\ recommendations[k].recommended_max_clusters
                     = (IF uncapped > 10 THEN 10 ELSE uncapped)
               /\ recommendations[k].recommended_max_clusters <= 10

C14_Witness ==
    \E k \in Done :
        /\ df[k].ABSOLUTE_PEAK_CONCURRENT = Tenths(90)
        /\ recommendations[k].recommended_max_clusters = 10

\* an absent peak counts as 0
PeakOrZero(x) == IF x \in {None, NaN} THEN 0 ELSE x

(* C15: when multi-cluster is needed the policy is ECONOMY exactly when    *)
(* the business-hours peak is strictly greater than twice the off-hours    *)
(* peak, an absent peak counting as 0, and STANDARD otherwise; when it is  *)
(* not needed no policy is recommended.                                    *)
C15_Policy ==
    \A k \in Done :
        recommendations[k].recommended_policy =
            IF ~NeedsRule(df[k]) THEN "N/A"
            ELSE IF PeakOrZero(df[k].BUSINESS_HOURS_PEAK)
                      > 2 * PeakOrZero(df[k].OFF_HOURS_PEAK)
            THEN "ECONOMY"
            ELSE "STANDARD"

\* Scenario B: peak concurrency 40, queuing in 12 of 100 active hours
ScenarioB(row) ==
    /\ row.ABSOLUTE_PEAK_CONCURRENT = Tenths(40)
    /\ row.HOURS_WITH_QUEUING = 12
    /\ row.ACTIVE_HOURS_TOTAL = 100

(* C16: when multi-cluster is needed, confidence is HIGH if the percentage *)
(* of active hours with queuing is strictly greater than 10 and MEDIUM     *)
(* otherwise (exactly 10 gives MEDIUM); Scenario B needs multi-cluster     *)
(* with confidence HIGH.                                                   *)
C16_Confidence ==
    \A k \in Done :
        /\ NeedsRule(df[k]) =>
              recommendations[k].confidence =
                 (IF QueuedHoursPctOver(df[k], 10) THEN "HIGH" ELSE "MEDIUM")
        /\ ScenarioB(df[k]) =>
              /\ recommendations[k].needs_multi_cluster
              /\ recommendations[k].confidence = "HIGH"

C16_Witness ==
    /\ \E k \in Done : ScenarioB(df[k]) /\ recommendations[k].confidence = "HIGH"
    /\ \E k \in Done :
          /\ df[k].HOURS_WITH_QUEUING = 10 /\ df[k].ACTIVE_HOURS_TOTAL = 100
          /\ recommendations[k].needs_multi_cluster
          /\ recommendations[k].confidence = "MEDIUM"

\* the capacity a recommendation removes; both bounds are numbers
RemovedCapacity(rec) == rec.current_max_clusters - rec.recommended_max_clusters

NumericBounds(rec) == rec.current_max_clusters # NaN

(* C17: a recommended maximum above the current one is reported as a cost  *)
(* increase with no amount; one below it as a decrease whose estimated     *)
(* savings is derived from the removed capacity (current - recommended     *)
(* maximum), so that removing more clusters saves more; equal maxima are   *)
(* reported neutral.                                                       *)
C17_CostImpact ==
    /\ \A k \in Done :
          LET rec == recommendations[k] IN
          NumericBounds(rec) =>
             /\ RemovedCapacity(rec) < 0 =>
                   rec.cost_impact.label = "INCREASE" /\ rec.cost_impact.amount = None
             /\ RemovedCapacity(rec) > 0 => rec.cost_impact.label = "DECREASE"
             /\ RemovedCapacity(rec) = 0 => rec.cost_impact.label = "NEUTRAL"
    /\ \A j, k \in Done :
          LET a == recommendations[j]
              b == recommendations[k] IN
          (/\ NumericBounds(a) /\ NumericBounds(b)
           /\ RemovedCapacity(b) > 0
           /\ RemovedCapacity(a) > RemovedCapacity(b))
             => a.cost_impact.amount > b.cost_impact.amount

----------------------------------------------------------------------------
(* The clustering advisor's claims, stated on the tables the query saw,    *)
(* the rows it returned and the recommendations emitted.                   *)

\* the recommendations emitted for a table
RecsFor(name) == {j \in Done : recommendations[j].table = name}

\* recommend_clustering_keys is running or has returned
ClusteringRunning == pc \in {"clustering_iterrows", "returned"}

NoKey(row) == row.CURRENT_CLUSTERING_KEY \in {NoneObj, ""}

SizeGBOver(row, n) ==
    row.TABLE_BYTES # None /\ row.TABLE_BYTES > n * MiBPerGiB

ClusteringRule(row) ==
    \/ row.AVG_PARTITION_SCAN_RATIO > 50
    \/ (NoKey(row) /\ row.QUERY_COUNT > 20)
    \/ SizeGBOver(row, 100)

(* C18: a table seen by fewer than 5 queries never receives a clustering   *)
(* recommendation, whatever its scan ratio, size or current key.           *)
C18_EligibilityFloor ==
    \A k \in 1..Len(source) :
        source[k].QUERY_COUNT < 5 => RecsFor(source[k].TABLE_NAME) = {}

C18_Witness ==
    /\ pc = "returned"
    /\ Len(source) = 2
    /\ RecsFor(source[1].TABLE_NAME) # {}
    /\ source[2].QUERY_COUNT = 4
    /\ source[2].AVG_PARTITION_SCAN_RATIO = 85
    /\ SizeGBOver(source[2], 100)
    /\ NoKey(source[2])
    /\ RecsFor(source[2].TABLE_NAME) = {}

ScenarioC(row) ==
    /\ row.AVG_PARTITION_SCAN_RATIO = 85
    /\ NoKey(row)
    /\ row.QUERY_COUNT = 60
    /\ row.TABLE_BYTES = 5 * MiBPerGiB

(* C20: an emitted recommendation for a table without a clustering key is  *)
(* "Add clustering key", HIGH above 50 queries and MEDIUM otherwise; for a *)
(* table with a key it is HIGH "Re-evaluate clustering key" when the scan  *)
(* ratio > 0.7 and LOW "Monitor clustering health" otherwise; Scenario C   *)
(* yields HIGH / "Add clustering key".                                     *)
C20_Priority ==
    \A k \in 1..Len(df) : \A j \in RecsFor(df[k].TABLE_NAME) :
        LET rec == recommendations[j] IN
        /\ NoKey(df[k]) =>
              /\ rec.recommendation = "Add clustering key"
              /\ rec.priority = (IF df[k].QUERY_COUNT > 50 THEN "HIGH" ELSE "MEDIUM")
        /\ ~NoKey(df[k]) =>
              IF df[k].AVG_PARTITION_SCAN_RATIO > 70
              THEN rec.priority = "HIGH"
                   /\ rec.recommendation = "Re-evaluate clustering key"
              ELSE rec.priority = "LOW"
                   /\ rec.recommendation = "Monitor clustering health"
        /\ ScenarioC(df[k]) =>
              rec.priority = "HIGH" /\ rec.recommendation = "Add clustering key"

C20_Witness ==
    /\ \E k \in 1..Len(df) :
          /\ ScenarioC(df[k])
          /\ \E j \in RecsFor(df[k].TABLE_NAME) : recommendations[j].priority = "HIGH"
    /\ \E j \in Done :
          /\ recommendations[j].priority = "MEDIUM"
          /\ recommendations[j].query_count = 50

----------------------------------------------------------------------------
(* Claims on configuration, cluster bounds and the floor of the sizing     *)
(* advisor.                                                                *)

(* C27: the credit-to-currency rate has no default: with no rate           *)
(* configured, computing a cost fails with a ConfigurationError: no        *)
(* recommendation carrying a monetary value is produced and the advisor    *)
(* does not return normally.                                               *)
C27_NoDefaultRate ==
    env = None =>
        /\ Done = {}
        /\ pc # "returned"

(* C28: every scaling recommendation satisfies                             *)
(* 1 <= recommendedMin <= recommendedMax <= 10, for every profile with     *)
(* p95 concurrency <= peak concurrency.                                    *)
C28_BoundsOrdered ==
    \A k \in Done :
        df[k].P95_CONCURRENT <= df[k].ABSOLUTE_PEAK_CONCURRENT =>
            /\ 1 <= recommendations[k].recommended_min_clusters
            /\ recommendations[k].recommended_min_clusters
                  <= recommendations[k].recommended_max_clusters
            /\ recommendations[k].recommended_max_clusters <= 10

\* the capacity of the lowest tier covering v, 512 when none does
CoveringCapacity(v) ==
    IF Covering(v) = {} THEN 512
    ELSE CHOOSE c \in {size_to_credits[s] : s \in Covering(v)} :
            \A t \in Covering(v) : c <= size_to_credits[t]

\* 0 <= average <= p95, both present
OrderedProfile(row) ==
    /\ Present(row)
    /\ 0 <= row.AVG_CREDITS_PER_HOUR
    /\ row.AVG_CREDITS_PER_HOUR <= row.P95_CREDITS

(* C30: the sizing advisor never recommends below the average load: for    *)
(* every profile with 0 <= average <= p95, whatever the decision branch,   *)
(* the recommended size is a tier of the ladder and its capacity is at     *)
(* least that of the tier covering the average.                            *)
C30_NotBelowAverage ==
    \A k \in Done :
        OrderedProfile(df[k]) =>
            /\ recommendations[k].recommended_size \in LadderTiers
            /\ size_to_credits[recommendations[k].recommended_size]
                  >= CoveringCapacity(df[k].AVG_CREDITS_PER_HOUR)

C30_Witness ==
    \E k \in Done :
        /\ OrderedProfile(df[k])
        /\ branch(df[k]) = "oversized"
        /\ df[k].AVG_CREDITS_PER_HOUR > Tenths(1)
        /\ size_to_credits[recommendations[k].recommended_size]
              > CoveringCapacity(df[k].AVG_CREDITS_PER_HOUR)

----------------------------------------------------------------------------
(* Claims on the considerations and on profile validation *)

\* the considerations of a recommendation, as a set of notes
Notes(rec) == {rec.considerations[n] : n \in 1..Len(rec.considerations)}

\* stdev / average > 0.5 (no ratio when the deviation is absent or the
\* average is 0)
VariabilityOver(row) ==
    /\ notna(row.STDDEV_CREDITS)
    /\ row.AVG_CREDITS_PER_HOUR # 0
    /\ IF row.AVG_CREDITS_PER_HOUR > 0
       THEN 2 * row.STDDEV_CREDITS > row.AVG_CREDITS_PER_HOUR
       ELSE 2 * row.STDDEV_CREDITS < row.AVG_CREDITS_PER_HOUR

\* the average query rate is known and below 10 per hour
RateBelow10(row) ==
    notna(row.AVG_QUERIES_PER_HOUR) /\ row.AVG_QUERIES_PER_HOUR < Tenths(10)

(* C25: in every decision branch, the variability note and its follow-up   *)
(* are added exactly when stdev / average > 0.5, and the low-query-volume  *)
(* note and its follow-up exactly when the average query rate is below 10  *)
(* per hour, a rate of 0 included.                                         *)
C25_Considerations ==
    \A k \in Done :
        LET notes == Notes(recommendations[k]) IN
        /\ ("High workload variability" \in notes) = VariabilityOver(df[k])
        /\ ("Consider auto-scaling policies" \in notes) = VariabilityOver(df[k])
        /\ ("Low query volume" \in notes) = RateBelow10(df[k])
        /\ ("Consider consolidating with other warehouses" \in notes)
              = RateBelow10(df[k])

\* the data-model invariants of a usage profile: no negative statistic, and
\* percentiles in order (p95 <= max)
ValidProfile(row) ==
    /\ Present(row) => row.AVG_CREDITS_PER_HOUR >= 0 /\ row.P95_CREDITS >= 0
    /\ (notna(row.P95_CREDITS) /\ notna(row.MAX_CREDITS_PER_HOUR))
          => row.P95_CREDITS <= row.MAX_CREDITS_PER_HOUR

(* C26: a profile that violates a data-model invariant (a negative average *)
(* or p95, or p95 > max) is rejected with an InvalidProfile error and      *)
(* never yields a sizing recommendation.                                   *)
C26_InvalidProfile ==
    /\ \A k \in Done : ValidProfile(df[k])
    /\ (pc = "returned" /\ ~ValidProfile(df[1])) => error = "InvalidProfile"

----------------------------------------------------------------------------
(* The apply paths *)

\* the statements of the running script that the service has executed
Executed == SubSeq(script.queries, 1, script.i - 1)

\* the statements of the running script from the failing one on
NotExecuted == SubSeq(script.queries, script.i, Len(script.queries))

\* the last Len(Executed) entries of `applied`
AppliedByScript ==
    SubSeq(applied, Len(applied) - Len(Executed) + 1, Len(applied))

\* a statement of the script failed and the failure has left execute_script
ScriptFailed == error = "ProgrammingError"

\* the exception is on its way from execute_script through the apply function
\* to main(), or has ended the run with exit status 1
Raising == {"script_raised", "raised", "scaling_raised", "idle_raised", "exit1"}

\* C22: an apply batch is sequential and not transactional: what the service
\* holds of the running script is exactly the statements before the failing
\* one, in list order; the statements from the failing one on are never
\* executed; nothing is undone or added after the failure; and the failure
\* reaches the caller, so the run never ends as a success.
C22_SequentialNoRollback ==
    /\ [](/\ Len(applied) >= Len(Executed)
          /\ AppliedByScript = [k \in 1..Len(Executed) |->
                                   [by |-> script.caller, query |-> Executed[k]]]
          /\ ScriptFailed => /\ NotExecuted # <<>>
                             /\ pc \in Raising)
    /\ [][ScriptFailed => applied' = applied]_vars

\* statement 2 of 3 failed: statement 1 stays applied, statement 3 never ran
C22_Witness ==
    /\ pc = "exit1"
    /\ ScriptFailed
    /\ Len(script.queries) = 3
    /\ script.i = 2
    /\ Len(applied) = 1

\* the warehouses named by a list of statements
Altered(queries) == [k \in 1..Len(queries) |-> queries[k].alter]

\* the texts the apply functions print when execute_script raises
FailureLines ==
    {"Failed to apply changes", "Failed to suspend warehouses", "Failed to optimize"}

\* the console lines printed after the failure was caught
ReportedAfterFailure ==
    {console[k] : k \in {n \in 1..Len(console) :
                            console[n].message \in FailureLines}}

\* C23: when an apply batch fails part-way, the reported outcome names the
\* warehouses that were changed and the warehouses that were not.
C23_PartialSuccessReport ==
    (ScriptFailed /\ pc \in Raising \ {"script_raised"}) =>
        \E ok \in ReportedAfterFailure, ko \in ReportedAfterFailure :
            /\ ok.warehouses = Altered(Executed)
            /\ ko.warehouses = Altered(NotExecuted)

\* the warehouses whose recommended tier is not the tier they run on, with
\* the filter applied
SizeDiffers(recs, warehouse_filter) ==
    {recs[k].warehouse : k \in {n \in 1..Len(recs) :
        /\ upper(recs[n].current_size) # recs[n].recommended_size
        /\ MatchesFilter(recs[n].warehouse, warehouse_filter)}}

\* C24: the sizing apply batch holds a statement for a warehouse exactly when
\* its recommended size differs from its current size and it passes the
\* filter; a warehouse already on the recommended size is never altered.
C24_SizingBatchExact ==
    script.caller = "apply_recommendations" =>
        {script.queries[k].alter : k \in 1..Len(script.queries)}
            = SizeDiffers(recommendations, args.warehouse)

\* the summary lines of the scaling report that count configuration changes
ChangeCounts ==
    {console[k].count : k \in {n \in 1..Len(console) :
        console[n].message = "Warehouses Needing Configuration Change"}}

\* the warehouses the summary counts, and the warehouses an unfiltered apply
\* writes a statement for
CountedWarehouses ==
    {r.warehouse : r \in {needs_changes(recommendations)[k] :
                             k \in 1..Len(needs_changes(recommendations))}}

AlteredWarehouses ==
    {q.alter : q \in {scaling_statements(scaling_changes(recommendations, NoneObj))[k] :
                         k \in 1..Len(scaling_changes(recommendations, NoneObj))}}

\* C29: the warehouses the scaling summary counts as needing a configuration
\* change are the warehouses an unfiltered apply_scaling_configuration
\* generates an ALTER statement for.
C29_SummaryMatchesApply ==
    (args.prog = "configure_scaling" /\ ChangeCounts # {}) =>
        /\ CountedWarehouses = AlteredWarehouses
        /\ ChangeCounts = {Cardinality(AlteredWarehouses)}

\* the command line asked for the apply path of this function
Requested(f) ==
    CASE f = "apply_recommendations" ->
            args.prog = "recommend_sizes" /\ args.apply
      [] f = "apply_scaling_configuration" ->
            args.prog = "configure_scaling" /\ args.apply
      [] f = "suspend_idle_warehouses" ->
            args.prog = "find_idle_warehouses" /\ args.suspend
      [] f = "optimize_auto_suspend" ->
            args.prog = "find_idle_warehouses" /\ args.optimize_suspend
      [] OTHER -> FALSE

\* the statements the service executed on behalf of function f
AppliedBy(f) == SelectSeq(applied, LAMBDA a : a.by = f)

\* C21: a reconfiguration statement is executed, or handed to
\* execute_script, only for a function whose apply path was requested on
\* the command line and whose confirmation prompt was answered yes; a
\* function that was declined, or had no changes, executes no statement.
C21_ConfirmedOnly ==
    /\ \A n \in 1..Len(applied) :
          applied[n].by \in confirmed /\ Requested(applied[n].by)
    /\ script.queries # <<>> =>
          script.caller \in confirmed /\ Requested(script.caller)
    /\ \A f \in confirmed : Requested(f)

\* the idle tool run with both apply paths: suspending was declined although
\* there was something to suspend, optimizing was confirmed and executed
C21_Witness ==
    /\ pc = "exit0"
    /\ args.suspend /\ args.optimize_suspend
    /\ to_suspend(idle_df) # <<>>
    /\ confirmed = {"optimize_auto_suspend"}
    /\ AppliedBy("suspend_idle_warehouses") = <<>>
    /\ applied # <<>>
    /\ \E k \in 1..Len(console) : console[k].message = "Cancelled"

====
